---- MODULE Spec2Model ----
(***************************************************************************)
(* A model of the cache core of GinPro (package cachex):                   *)
(*   - LocalCache with its two eviction policies (local_cache.go),         *)
(*   - RedisCache, the adapter over the remote store (redis_cache.go),     *)
(*   - TwoLevelCache (compose_cache.go),                                   *)
(*   - MultiLevelCache (multi_level_cache.go),                             *)
(* and of the WorkerPool (package WorkPool).                               *)
(* LocalCache operations are modelled as operators over the cache's        *)
(* fields (store, policy, capacity) so that the two composed caches use    *)
(* the very same definitions as the stand-alone LocalCache specification.  *)
(***************************************************************************)
EXTENDS Integers, Sequences, FiniteSets, Bags, TLC

(* ------------------------------ bounds --------------------------------- *)

\* keys 1..MaxKey are used by the LocalCache specification
MaxKey == 3
\* values 0..MaxVal; 0 is the zero value of the value type
MaxVal == 1
\* requested capacities 0..MaxCap (0 is substituted by the default)
MaxCap == 2
\* LFU frequencies are capped at MaxFreq by the guards of the actions
MaxFreq == 4

\* keys 1..MaxCKey are used by the callers of the composed caches
MaxCKey == 2
\* concurrent callers 1..MaxProc of a composed cache
MaxProc == 2
\* a behaviour of a composed cache starts at most MaxOps Get/Set/Delete calls
MaxOps == 2

\* NewLocalCache: capacity substituted when the requested one is <= 0
DefaultCapacity == 1000

Keys == 1..MaxKey
Values == 0..MaxVal
\* the zero value of the key type (what Evict returns with ok = false)
ZeroKey == 0
\* the zero value of the value type
ZeroVal == 0

ErrNil == "nil"
\* ErrKeyNotExist = redis.Nil
ErrKeyNotExist == "redis.Nil"
\* any failure of the remote store other than redis.Nil (refused, timed out)
ErrTransport == "redis: transport error"
\* the error json.Unmarshal returns for bytes that are no encoding of a value
ErrUnmarshal == "json: cannot unmarshal"
\* the error a failing loader returns
ErrLoad == "loader failed"

CKeys == 1..MaxCKey
Procs == 1..MaxProc

(* ------------------------------ helpers -------------------------------- *)

\* a Go map: a function whose domain is the set of present keys
EmptyMap == [x \in {} |-> 0]
Put(f, k, v) == [x \in (DOMAIN f) \cup {k} |-> IF x = k THEN v ELSE f[x]]
Drop(f, k) == [x \in (DOMAIN f) \ {k} |-> f[x]]

\* container/list: a list is the sequence of its elements, front first
PushFront(l, x) == <<x>> \o l
Back(l) == l[Len(l)]
IndexOf(l, x) == CHOOSE i \in 1..Len(l) : l[i] = x /\ \A j \in 1..(i - 1) : l[j] # x
\* List.Remove(elem): removes that one element (the front-most one holding x)
ListRemove(l, x) ==
  IF \E i \in 1..Len(l) : l[i] = x
    THEN LET i == IndexOf(l, x) IN SubSeq(l, 1, i - 1) \o SubSeq(l, i + 1, Len(l))
    ELSE l
\* List.MoveToFront(elem)
MoveToFront(l, x) ==
  IF \E i \in 1..Len(l) : l[i] = x THEN PushFront(ListRemove(l, x), x) ELSE l
Occurrences(l, x) == Cardinality({i \in 1..Len(l) : l[i] = x})

(* ------------------------------ lruPolicy ------------------------------ *)
\* p = [kind, capacity, ll, elements]: ll is the list of the items' keys,
\* most recent first; elements is the set of keys that have a list element
\* (the key set of the Go map). The value field of lruItem is written by Add
\* and read by no method, so it is not part of the state.

newLRUPolicy(cap) == [kind |-> "lru", capacity |-> cap, ll |-> <<>>, elements |-> {}]

lruAdd(p, key, value) ==
  IF key \in p.elements
    THEN [p EXCEPT !.ll = MoveToFront(p.ll, key)]
    ELSE [p EXCEPT !.ll = PushFront(p.ll, key), !.elements = p.elements \cup {key}]

lruAccess_NoMove(p, key) == p

lruAccess(p, key) ==
  IF key \in p.elements THEN [p EXCEPT !.ll = MoveToFront(p.ll, key)] ELSE p

lruEvict_Front(p) ==
  IF Len(p.ll) = 0
    THEN [policy |-> p, key |-> ZeroKey, ok |-> FALSE]
    ELSE [policy |-> [p EXCEPT !.ll = Tail(p.ll), !.elements = p.elements \ {Head(p.ll)}],
          key |-> Head(p.ll), ok |-> TRUE]

lruEvict(p) ==
  IF Len(p.ll) = 0
    THEN [policy |-> p, key |-> ZeroKey, ok |-> FALSE]
    ELSE LET key == Back(p.ll)
         IN [policy |-> [p EXCEPT !.ll = SubSeq(p.ll, 1, Len(p.ll) - 1),
                                  !.elements = p.elements \ {key}],
             key |-> key, ok |-> TRUE]

lruRemove(p, key) ==
  IF key \in p.elements
    THEN [p EXCEPT !.ll = ListRemove(p.ll, key), !.elements = p.elements \ {key}]
    ELSE p

(* ------------------------------ lfuPolicy ------------------------------ *)
\* p = [kind, minFreq, elements, freqMap]: elements maps a key to the
\* frequency of the lfuItem its list element holds; freqMap maps a frequency
\* to the list of the items' keys at that frequency (a frequency outside
\* DOMAIN freqMap has a nil list). The value field of lfuItem is written by
\* Add and read by no method, so it is not part of the state.

newLFUPolicy == [kind |-> "lfu", minFreq |-> 0, elements |-> EmptyMap, freqMap |-> EmptyMap]

lfuList(p, f) == IF f \in DOMAIN p.freqMap THEN p.freqMap[f] ELSE <<>>

lfuIncrement_KeepOld(p, key) ==
  LET f == p.elements[key]
      fm == Put(p.freqMap, f + 1, PushFront(lfuList(p, f + 1), key))
  IN [p EXCEPT !.freqMap = fm,
               !.elements = Put(p.elements, key, f + 1)]

\* increment(elem), elem being the element of key
lfuIncrement(p, key) ==
  LET f == p.elements[key]
      oldList == ListRemove(lfuList(p, f), key)
      fm1 == IF Len(oldList) = 0 THEN Drop(p.freqMap, f) ELSE Put(p.freqMap, f, oldList)
      mf == IF Len(oldList) = 0 /\ p.minFreq = f THEN p.minFreq + 1 ELSE p.minFreq
      newList == IF (f + 1) \in DOMAIN fm1 THEN fm1[f + 1] ELSE <<>>
  IN [p EXCEPT !.minFreq = mf,
               !.freqMap = Put(fm1, f + 1, PushFront(newList, key)),
               !.elements = Put(p.elements, key, f + 1)]

lfuAdd(p, key, value) ==
  IF key \in DOMAIN p.elements
    THEN lfuIncrement(p, key)
    ELSE [p EXCEPT !.freqMap = Put(p.freqMap, 1, PushFront(lfuList(p, 1), key)),
                   !.elements = Put(p.elements, key, 1),
                   !.minFreq = 1]

lfuAccess(p, key) ==
  IF key \in DOMAIN p.elements THEN lfuIncrement(p, key) ELSE p

lfuEvict_NoOp(p) == [policy |-> p, key |-> ZeroKey, ok |-> FALSE]

lfuEvict_Front(p) ==
  IF p.minFreq \notin DOMAIN p.freqMap \/ Len(lfuList(p, p.minFreq)) = 0
    THEN [policy |-> p, key |-> ZeroKey, ok |-> FALSE]
    ELSE LET minList == p.freqMap[p.minFreq]
             key == Head(minList)
             rest == Tail(minList)
         IN [policy |-> [p EXCEPT !.freqMap = IF Len(rest) = 0
                                                THEN Drop(p.freqMap, p.minFreq)
                                                ELSE Put(p.freqMap, p.minFreq, rest),
                                  !.elements = Drop(p.elements, key)],
             key |-> key, ok |-> TRUE]

lfuEvict(p) ==
  IF p.minFreq \notin DOMAIN p.freqMap \/ Len(lfuList(p, p.minFreq)) = 0
    THEN [policy |-> p, key |-> ZeroKey, ok |-> FALSE]
    ELSE LET minList == p.freqMap[p.minFreq]
             key == Back(minList)
             rest == SubSeq(minList, 1, Len(minList) - 1)
         IN [policy |-> [p EXCEPT !.freqMap = IF Len(rest) = 0
                                                THEN Drop(p.freqMap, p.minFreq)
                                                ELSE Put(p.freqMap, p.minFreq, rest),
                                  !.elements = Drop(p.elements, key)],
             key |-> key, ok |-> TRUE]

lfuRemove_Repair(p, key) ==
  IF key \in DOMAIN p.elements
    THEN LET f == p.elements[key]
             rest == ListRemove(lfuList(p, f), key)
         IN [p EXCEPT !.freqMap = IF Len(rest) = 0 THEN Drop(p.freqMap, f)
                                                   ELSE Put(p.freqMap, f, rest),
                      !.elements = Drop(p.elements, key),
                      !.minFreq = IF Len(rest) = 0 /\ p.minFreq = f THEN f + 1 ELSE p.minFreq]
    ELSE p

lfuRemove(p, key) ==
  IF key \in DOMAIN p.elements
    THEN LET f == p.elements[key]
             rest == ListRemove(lfuList(p, f), key)
         IN [p EXCEPT !.freqMap = IF Len(rest) = 0 THEN Drop(p.freqMap, f)
                                                   ELSE Put(p.freqMap, f, rest),
                      !.elements = Drop(p.elements, key)]
    ELSE p

(* ------------------------ EvictionPolicy interface --------------------- *)

PolicyAdd(p, key, value) == IF p.kind = "lfu" THEN lfuAdd(p, key, value) ELSE lruAdd(p, key, value)
PolicyAccess(p, key) == IF p.kind = "lfu" THEN lfuAccess(p, key) ELSE lruAccess(p, key)
PolicyEvict(p) == IF p.kind = "lfu" THEN lfuEvict(p) ELSE lruEvict(p)
PolicyRemove(p, key) == IF p.kind = "lfu" THEN lfuRemove(p, key) ELSE lruRemove(p, key)

\* the keys the policy tracks, and how many tracking entries a key has
PolicyKeys(p) == IF p.kind = "lfu" THEN DOMAIN p.elements ELSE p.elements
PolicyEntries(p, key) ==
  IF p.kind = "lfu"
    THEN LET fs == DOMAIN p.freqMap
             Sum[S \in SUBSET fs] ==
               IF S = {} THEN 0
               ELSE LET f == CHOOSE x \in S : TRUE
                    IN Occurrences(p.freqMap[f], key) + Sum[S \ {f}]
         IN Sum[fs]
    ELSE Occurrences(p.ll, key)

(* ------------------------------ LocalCache ----------------------------- *)
\* c = [store, policy, capacity]

NewLocalCache(cap, policyType) ==
  LET capacity == IF cap <= 0 THEN DefaultCapacity ELSE cap
  IN [store |-> EmptyMap, capacity |-> capacity,
      policy |-> IF policyType = "lfu" THEN newLFUPolicy ELSE newLRUPolicy(capacity)]

\* Get: the new cache state and what is returned
LocalCacheGet(c, key) ==
  IF key \in DOMAIN c.store
    THEN [cache |-> [c EXCEPT !.policy = PolicyAccess(c.policy, key)],
          value |-> c.store[key], err |-> ErrNil]
    ELSE [cache |-> c, value |-> ZeroVal, err |-> ErrKeyNotExist]

LocalCacheSet_NoEvict(c, key, value) ==
  IF key \in DOMAIN c.store
    THEN [cache |-> [c EXCEPT !.store = Put(c.store, key, value),
                              !.policy = PolicyAccess(c.policy, key)],
          evicted |-> ZeroKey, ok |-> FALSE]
    ELSE [cache |-> [c EXCEPT !.store = Put(c.store, key, value),
                              !.policy = PolicyAdd(c.policy, key, value)],
          evicted |-> ZeroKey, ok |-> FALSE]

LocalCacheSet_EvictOnOverwrite(c, key, value) ==
  LET ev == IF Cardinality(DOMAIN c.store) >= c.capacity
              THEN PolicyEvict(c.policy)
              ELSE [policy |-> c.policy, key |-> ZeroKey, ok |-> FALSE]
      st == IF ev.ok THEN Drop(c.store, ev.key) ELSE c.store
  IN [cache |-> [c EXCEPT !.store = Put(st, key, value),
                          !.policy = PolicyAdd(ev.policy, key, value)],
      evicted |-> ev.key, ok |-> ev.ok]

\* Set: the new cache state and the key Evict returned (ok = FALSE: none)
LocalCacheSet(c, key, value) ==
  IF key \in DOMAIN c.store
    THEN [cache |-> [c EXCEPT !.store = Put(c.store, key, value),
                              !.policy = PolicyAccess(c.policy, key)],
          evicted |-> ZeroKey, ok |-> FALSE]
    ELSE LET ev == IF Cardinality(DOMAIN c.store) >= c.capacity
                     THEN PolicyEvict(c.policy)
                     ELSE [policy |-> c.policy, key |-> ZeroKey, ok |-> FALSE]
             st == IF ev.ok THEN Drop(c.store, ev.key) ELSE c.store
         IN [cache |-> [c EXCEPT !.store = Put(st, key, value),
                                 !.policy = PolicyAdd(ev.policy, key, value)],
             evicted |-> ev.key, ok |-> ev.ok]

LocalCacheDelete_KeepPolicy(c, key) == [c EXCEPT !.store = Drop(c.store, key)]

LocalCacheDelete(c, key) ==
  [c EXCEPT !.store = Drop(c.store, key), !.policy = PolicyRemove(c.policy, key)]

\* the frequency an access of key would start from (0 for LRU)
FreqOf(c, key) ==
  IF c.policy.kind = "lfu" /\ key \in DOMAIN c.policy.elements
    THEN c.policy.elements[key] ELSE 0


(* --------------------------- remote store ------------------------------ *)
\* The remote key-value store (redis.Cmdable): rem maps a storage key to the
\* bytes stored under it; up tells whether the store answers at all. A call
\* that cannot complete (store unreachable, context deadline exceeded)
\* fails with ErrTransport. Entries are read within their expiration.

NoBytes == [kind |-> "none", val |-> 0]
\* bytes that are not the JSON encoding of any value of the value type
RawBytes == [kind |-> "raw", val |-> 0]

jsonMarshal(value) == [kind |-> "json", val |-> value]
jsonUnmarshal(data) ==
  IF data.kind = "json" THEN [value |-> data.val, err |-> ErrNil]
                        ELSE [value |-> ZeroVal, err |-> ErrUnmarshal]

redisGet(rem, up, key) ==
  IF ~up THEN [data |-> NoBytes, err |-> ErrTransport]
  ELSE IF key \notin DOMAIN rem THEN [data |-> NoBytes, err |-> ErrKeyNotExist]
  ELSE [data |-> rem[key], err |-> ErrNil]

redisSet(rem, up, key, data) ==
  IF ~up THEN [remote |-> rem, err |-> ErrTransport]
         ELSE [remote |-> Put(rem, key, data), err |-> ErrNil]

redisDel(rem, up, key) ==
  IF ~up THEN [remote |-> rem, err |-> ErrTransport]
         ELSE [remote |-> Drop(rem, key), err |-> ErrNil]

redisPing(up) == IF up THEN ErrNil ELSE ErrTransport

(* ------------------------------ RedisCache ----------------------------- *)

\* the caller-supplied key derivation (deterministic, one storage key per id)
keyFunc(id) == <<"cache", id>>

\* Get: the error of json.Unmarshal is dropped, the value is returned as is
RedisCacheGet(rem, up, id) ==
  LET r == redisGet(rem, up, keyFunc(id))
  IN IF r.err # ErrNil THEN [value |-> ZeroVal, err |-> r.err]
                       ELSE [value |-> jsonUnmarshal(r.data).value, err |-> ErrNil]

RedisCacheSet_NoWrite(rem, up, id, value) ==
  [remote |-> rem, err |-> IF up THEN ErrNil ELSE ErrTransport]

RedisCacheSet(rem, up, id, value) == redisSet(rem, up, keyFunc(id), jsonMarshal(value))

RedisCacheDelete(rem, up, id) == redisDel(rem, up, keyFunc(id))

\* the contents a remote store may have when a cache is constructed over it
RemoteEntries == {jsonMarshal(v) : v \in Values} \cup {RawBytes}
InitialRemotes ==
  UNION {[{keyFunc(k) : k \in S} -> RemoteEntries] : S \in SUBSET CKeys}

(* ------------------------------ state ---------------------------------- *)

VARIABLES
  local,        \* the LocalCache: [store, policy, capacity]
  mu,           \* LocalCache.mu: [readers, writer], the holders of the RWMutex
  insOrder,     \* history: keys Set so far while only distinct new keys were Set
  pure,         \* history: TRUE while every call so far was a Set of a new key
  evictLog,     \* history: keys evicted so far, in order (kept while pure)
  recency,      \* history (LRU caches): resident keys, most recently Get/Set first
  lastEvicted,  \* history: the key the last call evicted (ZeroKey: none)
  arrival,      \* history (LFU caches): per access count, the resident keys with
                \* that count, the one that reached it first at the head
  remote,       \* the remote store: storage key -> bytes
  remoteUp,     \* whether the remote store is reachable
  proc,         \* the callers: position in the call, arguments, locals, result
  jobs,         \* the bag of goroutines spawned by Set/Delete and not yet run
  nops,         \* history: number of calls started
  writes,       \* history: per key, number of Set/Delete calls issued
  lastSet,      \* history: per key, the value of the last Set issued (NoVal: none)
  okRuns,       \* history: per key, number of goroutines whose remote call succeeded
  bf,           \* history: per key, the value backfilled from the remote store
                \* and not written or evicted since (NoVal: none)
  redisEnabled, \* MultiLevelCache.redisEnabled
  sfm,          \* singleFlight: the registry, key string -> in-flight call
  calls,        \* singleFlight: the calls created so far (result, done)
  loads,        \* history: per key, number of loader invocations
  recovered,    \* history: a health probe has succeeded since the last outage
  overlap,      \* history: every call so far started before any call returned
  allEarly,     \* history: every Do so far was entered before any call completed
  wrote,        \* history: the singleFlight calls whose function has written the
                \* loaded value to LocalCache
  wp,           \* the WorkerPool: [tasks, size, stop, closed, workerCount,
                \* desiredWorkers, wg]
  worker,       \* the worker goroutines: position in worker(), task in hand
  client,       \* the callers of Submit / Stop / Resize: position, result
  nsub,         \* history: number of Submit calls started (names the tasks)
  accepted,     \* history: the tasks placed in the task queue
  finished,     \* history: the tasks that have finished executing
  owed,         \* history: the tasks accepted when Stop was called
  lowered       \* history: the last Resize lowered the desired worker count

localHist == <<insOrder, pure, evictLog, recency, lastEvicted, arrival>>
\* what a call of a composed cache leaves alone in its LocalCache: every
\* LocalCache method releases mu before it returns
localRest == <<localHist, mu>>
twoHist == <<writes, lastSet, okRuns, bf>>
multi == <<redisEnabled, sfm, calls, loads, recovered, overlap, allEarly, wrote>>
composed == <<remote, remoteUp, proc, jobs, nops, twoHist, multi>>
\* the state of the caches, the state of the worker pool
cacheVars == <<local, mu, insOrder, pure, evictLog, recency, lastEvicted, arrival,
               remote, remoteUp, proc, jobs, nops, writes, lastSet, okRuns, bf,
               redisEnabled, sfm, calls, loads, recovered, overlap, allEarly, wrote>>
workerPool == <<wp, worker, client, nsub, accepted, finished, owed, lowered>>
vars == <<cacheVars, workerPool>>

\* no WorkerPool has been constructed
NoPool ==
  /\ wp = [tasks |-> <<>>, size |-> 0, stop |-> FALSE, closed |-> FALSE,
           workerCount |-> 0, desiredWorkers |-> 0, wg |-> 0]
  /\ worker = EmptyMap /\ client = EmptyMap /\ nsub = 0
  /\ accepted = {} /\ finished = {} /\ owed = {} /\ lowered = FALSE

NoVal == MaxVal + 1

\* the access-count history: a key's count is 1 when it is inserted and
\* grows by one with every Get or overwriting Set
\* the RWMutex held by nobody (writer 0: no writer)
Unlocked == [readers |-> {}, writer |-> 0]

NoArrivals == [f \in 1..MaxFreq |-> <<>>]
CountOf(a, key) ==
  IF \E f \in DOMAIN a : Occurrences(a[f], key) > 0
    THEN CHOOSE f \in DOMAIN a : Occurrences(a[f], key) > 0
    ELSE 0
Forget(a, key) == [f \in DOMAIN a |-> ListRemove(a[f], key)]
Arrive(a, key, f) == [Forget(a, key) EXCEPT ![f] = Append(@, key)]
Touch(a, key) == IF CountOf(a, key) = 0 THEN a ELSE Arrive(a, key, CountOf(a, key) + 1)

(* --------------------- LocalCache specification ------------------------ *)

InitLocal ==
  /\ NoPool
  /\ \E cap \in 0..MaxCap, pt \in {"lru", "lfu"} : local = NewLocalCache(cap, pt)
  /\ insOrder = <<>>
  /\ pure = TRUE
  /\ evictLog = <<>>
  /\ recency = <<>>
  /\ lastEvicted = ZeroKey
  /\ arrival = NoArrivals
  /\ mu = Unlocked
  /\ remote = EmptyMap /\ remoteUp = TRUE /\ proc = EmptyMap /\ jobs = EmptyBag
  /\ nops = 0 /\ writes = EmptyMap /\ lastSet = EmptyMap /\ okRuns = EmptyMap
  /\ bf = EmptyMap
  /\ redisEnabled = TRUE /\ sfm = EmptyMap /\ calls = <<>> /\ loads = EmptyMap
  /\ recovered = FALSE /\ overlap = TRUE /\ allEarly = TRUE /\ wrote = {}

\* cache.Get(ctx, key)
LGet(key) ==
  /\ FreqOf(local, key) < MaxFreq
  /\ local' = LocalCacheGet(local, key).cache
  /\ recency' = IF local.policy.kind = "lru" THEN MoveToFront(recency, key) ELSE recency
  /\ arrival' = IF local.policy.kind = "lfu" THEN Touch(arrival, key) ELSE arrival
  /\ pure' = FALSE /\ insOrder' = <<>> /\ evictLog' = <<>>
  /\ lastEvicted' = ZeroKey
  /\ UNCHANGED <<workerPool, mu, composed>>

\* cache.Set(ctx, key, value)
LSet(key, value) ==
  /\ FreqOf(local, key) < MaxFreq
  /\ LET r == LocalCacheSet(local, key, value)
         fresh == pure /\ key \notin DOMAIN local.store
                       /\ \A i \in 1..Len(insOrder) : insOrder[i] # key
         rec == IF r.ok THEN ListRemove(recency, r.evicted) ELSE recency
     IN /\ local' = r.cache
        /\ lastEvicted' = IF r.ok THEN r.evicted ELSE ZeroKey
        /\ recency' = IF local.policy.kind = "lru"
                         THEN PushFront(ListRemove(rec, key), key) ELSE recency
        /\ arrival' = IF local.policy.kind # "lfu" THEN arrival
                      ELSE IF key \in DOMAIN local.store THEN Touch(arrival, key)
                      ELSE Arrive(IF r.ok THEN Forget(arrival, r.evicted) ELSE arrival,
                                  key, 1)
        /\ pure' = fresh
        /\ insOrder' = IF fresh THEN Append(insOrder, key) ELSE <<>>
        /\ evictLog' = IF fresh THEN (IF r.ok THEN Append(evictLog, r.evicted) ELSE evictLog)
                                ELSE <<>>
  /\ UNCHANGED <<workerPool, mu, composed>>

\* cache.Delete(ctx, key)
LDelete(key) ==
  /\ local' = LocalCacheDelete(local, key)
  /\ recency' = ListRemove(recency, key)
  /\ arrival' = Forget(arrival, key)
  /\ pure' = FALSE /\ insOrder' = <<>> /\ evictLog' = <<>>
  /\ lastEvicted' = ZeroKey
  /\ UNCHANGED <<workerPool, mu, composed>>

NextLocal ==
  \/ \E key \in Keys : LGet(key)
  \/ \E key \in Keys, value \in Values : LSet(key, value)
  \/ \E key \in Keys : LDelete(key)

SpecLocal == InitLocal /\ [][NextLocal]_vars

(* ----------------- LocalCache under concurrent callers ----------------- *)
\* The methods of LocalCache at the granularity of their lock operations.
\* proc[c] = [pc, key, val]: pc is the caller's position
\*   "idle"
\*   "rlocked"  Get holds mu.RLock and is about to read cache.store[key]
\*   "access"   Get, still under RLock, is inside cache.policy.Access(key)
\*   "runlock"  Get has its result, before the deferred mu.RUnlock
\*   "setting"  Set holds mu.Lock and is inside its updates of store/policy
\*   "deleting" Delete holds mu.Lock and is inside its updates
\*   "unlock"   Set/Delete are done, before the deferred mu.Unlock

LkIdle == [pc |-> "idle", key |-> ZeroKey, val |-> ZeroVal]

\* what a caller at its position is writing / reading: Access rewrites the
\* policy's list links, Set and Delete update the mapping and the policy
Writes(c) ==
  IF proc[c].pc = "access" THEN {"policy"}
  ELSE IF proc[c].pc \in {"setting", "deleting"} THEN {"store", "policy"}
  ELSE {}
Reads(c) ==
  IF proc[c].pc = "rlocked" THEN {"store"}
  ELSE IF proc[c].pc = "access" THEN {"policy"}
  ELSE {}

InitLock ==
  /\ NoPool
  /\ \E cap \in 1..MaxCap, pt \in {"lru", "lfu"} : local = NewLocalCache(cap, pt)
  /\ insOrder = <<>> /\ pure = TRUE /\ evictLog = <<>> /\ recency = <<>>
  /\ lastEvicted = ZeroKey
  /\ arrival = NoArrivals
  /\ mu = Unlocked
  /\ proc = [c \in Procs |-> LkIdle]
  /\ remote = EmptyMap /\ remoteUp = TRUE /\ jobs = EmptyBag
  /\ nops = 0 /\ writes = EmptyMap /\ lastSet = EmptyMap /\ okRuns = EmptyMap
  /\ bf = EmptyMap
  /\ redisEnabled = TRUE /\ sfm = EmptyMap /\ calls = <<>> /\ loads = EmptyMap
  /\ recovered = FALSE /\ overlap = TRUE /\ allEarly = TRUE /\ wrote = {}

lockFrame == <<localHist, remote, remoteUp, jobs, nops, twoHist, multi>>

\* Get: cache.mu.RLock(), granted while no writer holds mu
LkGetRLock(c, key) ==
  /\ proc[c].pc = "idle"
  /\ mu.writer = 0
  /\ mu' = [mu EXCEPT !.readers = @ \cup {c}]
  /\ proc' = [proc EXCEPT ![c] = [LkIdle EXCEPT !.pc = "rlocked", !.key = key]]
  /\ UNCHANGED <<workerPool, local, lockFrame>>

\* Get: value, exists := cache.store[key]; on a hit the caller enters
\* cache.policy.Access(key)
LkGetRead(c) ==
  /\ proc[c].pc = "rlocked"
  /\ proc' = [proc EXCEPT ![c] =
       IF proc[c].key \in DOMAIN local.store
         THEN [@ EXCEPT !.pc = "access", !.val = local.store[proc[c].key]]
         ELSE [@ EXCEPT !.pc = "runlock"]]
  /\ UNCHANGED <<workerPool, local, mu, lockFrame>>

\* Get: cache.policy.Access(key) completes. When another caller is inside
\* Access at the same time the two unsynchronized updates of the policy
\* race: this caller's update is either applied or lost.
LkGetAccess(c) ==
  /\ proc[c].pc = "access"
  /\ FreqOf(local, proc[c].key) < MaxFreq
  /\ \E applied \in BOOLEAN :
       /\ applied \/ \E d \in Procs \ {c} : proc[d].pc = "access"
       /\ local' = IF applied
                     THEN [local EXCEPT !.policy = PolicyAccess(local.policy, proc[c].key)]
                     ELSE local
  /\ proc' = [proc EXCEPT ![c].pc = "runlock"]
  /\ UNCHANGED <<workerPool, mu, lockFrame>>

\* Get: the deferred cache.mu.RUnlock(), return
LkGetRUnlock(c) ==
  /\ proc[c].pc = "runlock"
  /\ mu' = [mu EXCEPT !.readers = @ \ {c}]
  /\ proc' = [proc EXCEPT ![c] = LkIdle]
  /\ UNCHANGED <<workerPool, local, lockFrame>>

\* Set: cache.mu.Lock(), granted while nobody holds mu
LkSetLock(c, key, value) ==
  /\ proc[c].pc = "idle"
  /\ mu = Unlocked
  /\ mu' = [mu EXCEPT !.writer = c]
  /\ proc' = [proc EXCEPT ![c] = [pc |-> "setting", key |-> key, val |-> value]]
  /\ UNCHANGED <<workerPool, local, lockFrame>>

\* Set: the updates of store and policy
LkSetApply(c) ==
  /\ proc[c].pc = "setting"
  /\ FreqOf(local, proc[c].key) < MaxFreq
  /\ local' = LocalCacheSet(local, proc[c].key, proc[c].val).cache
  /\ proc' = [proc EXCEPT ![c].pc = "unlock"]
  /\ UNCHANGED <<workerPool, mu, lockFrame>>

\* Delete: cache.mu.Lock()
LkDeleteLock(c, key) ==
  /\ proc[c].pc = "idle"
  /\ mu = Unlocked
  /\ mu' = [mu EXCEPT !.writer = c]
  /\ proc' = [proc EXCEPT ![c] = [LkIdle EXCEPT !.pc = "deleting", !.key = key]]
  /\ UNCHANGED <<workerPool, local, lockFrame>>

\* Delete: delete(cache.store, key); cache.policy.Remove(key)
LkDeleteApply(c) ==
  /\ proc[c].pc = "deleting"
  /\ local' = LocalCacheDelete(local, proc[c].key)
  /\ proc' = [proc EXCEPT ![c].pc = "unlock"]
  /\ UNCHANGED <<workerPool, mu, lockFrame>>

\* Set / Delete: the deferred cache.mu.Unlock(), return
LkUnlock(c) ==
  /\ proc[c].pc = "unlock"
  /\ mu' = [mu EXCEPT !.writer = 0]
  /\ proc' = [proc EXCEPT ![c] = LkIdle]
  /\ UNCHANGED <<workerPool, local, lockFrame>>

NextLock ==
  \/ \E c \in Procs, key \in Keys : LkGetRLock(c, key)
  \/ \E c \in Procs : LkGetRead(c)
  \/ \E c \in Procs : LkGetAccess(c)
  \/ \E c \in Procs : LkGetRUnlock(c)
  \/ \E c \in Procs, key \in Keys, value \in Values : LkSetLock(c, key, value)
  \/ \E c \in Procs : LkSetApply(c)
  \/ \E c \in Procs, key \in Keys : LkDeleteLock(c, key)
  \/ \E c \in Procs : LkDeleteApply(c)
  \/ \E c \in Procs : LkUnlock(c)

SpecLock == InitLock /\ [][NextLock]_vars

(* --------------------- TwoLevelCache specification --------------------- *)
\* proc[c] = [pc, op, key, val, rc, ret]: pc is the caller's position
\* ("idle", "remote": before c.remote.Get, "backfill": before c.local.Set,
\* "done": returned), val the value read from the remote cache, rc the
\* number of remote calls the current call has issued, ret the returned
\* (value, error).

NoRet == [value |-> ZeroVal, err |-> "none"]
IdleProc == [pc |-> "idle", op |-> "none", key |-> ZeroKey, val |-> ZeroVal,
             rc |-> 0, ret |-> NoRet]
\* the goroutines a Set or a Delete can spawn
Jobs == [op : {"set"}, key : CKeys, val : Values] \cup [op : {"del"}, key : CKeys, val : {ZeroVal}]
CanStart(c) == proc[c].pc \in {"idle", "done"} /\ nops < MaxOps
Returned(p, value, err) == [p EXCEPT !.pc = "done", !.ret = [value |-> value, err |-> err]]

\* the backfill history after a LocalCache.Set of key with result r
BfAfterSet(key, r, value) ==
  [k \in DOMAIN bf |-> IF k = key THEN value
                       ELSE IF r.ok /\ k = r.evicted THEN NoVal ELSE bf[k]]

InitTwo ==
  /\ NoPool
  /\ \E cap \in 1..MaxCap, pt \in {"lru", "lfu"} : local = NewLocalCache(cap, pt)
  /\ insOrder = <<>> /\ pure = TRUE /\ evictLog = <<>> /\ recency = <<>>
  /\ lastEvicted = ZeroKey
  /\ arrival = NoArrivals
  /\ mu = Unlocked
  /\ remote \in InitialRemotes
  /\ remoteUp = TRUE
  /\ proc = [c \in Procs |-> IdleProc]
  /\ jobs = EmptyBag
  /\ nops = 0
  /\ writes = [k \in CKeys |-> 0]
  /\ lastSet = [k \in CKeys |-> NoVal]
  /\ okRuns = [k \in CKeys |-> 0]
  /\ bf = [k \in CKeys |-> NoVal]
  /\ redisEnabled = TRUE /\ sfm = EmptyMap /\ calls = <<>> /\ loads = EmptyMap
  /\ recovered = FALSE /\ overlap = TRUE /\ allEarly = TRUE /\ wrote = {}

\* TwoLevelCache.Get, first step: c.local.Get
TGetLocal(c, id) ==
  /\ CanStart(c)
  /\ LET r == LocalCacheGet(local, id)
         p == [IdleProc EXCEPT !.op = "get", !.key = id]
     IN /\ local' = r.cache
        /\ proc' = [proc EXCEPT ![c] = IF r.err = ErrNil
                                         THEN Returned(p, r.value, ErrNil)
                                         ELSE [p EXCEPT !.pc = "remote"]]
  /\ nops' = nops + 1
  /\ UNCHANGED <<workerPool, localRest, remote, remoteUp, jobs, writes, lastSet, okRuns, bf, multi>>

TGetRemote_MaskError(c) ==
  /\ proc[c].pc = "remote"
  /\ LET r == RedisCacheGet(remote, remoteUp, proc[c].key)
         p == [proc[c] EXCEPT !.rc = @ + 1]
     IN proc' = [proc EXCEPT ![c] = IF r.err # ErrNil
                                      THEN Returned(p, ZeroVal, ErrKeyNotExist)
                                      ELSE [p EXCEPT !.pc = "backfill", !.val = r.value]]
  /\ UNCHANGED <<workerPool, local, localRest, remote, remoteUp, jobs, nops, writes, lastSet, okRuns, bf, multi>>

\* TwoLevelCache.Get, second step: c.remote.Get under the fresh timeout
TGetRemote(c) ==
  /\ proc[c].pc = "remote"
  /\ LET r == RedisCacheGet(remote, remoteUp, proc[c].key)
         p == [proc[c] EXCEPT !.rc = @ + 1]
     IN proc' = [proc EXCEPT ![c] = IF r.err # ErrNil
                                      THEN Returned(p, ZeroVal, r.err)
                                      ELSE [p EXCEPT !.pc = "backfill", !.val = r.value]]
  /\ UNCHANGED <<workerPool, local, localRest, remote, remoteUp, jobs, nops, writes, lastSet, okRuns, bf, multi>>

TGetBackfill_NoSet(c) ==
  /\ proc[c].pc = "backfill"
  /\ proc' = [proc EXCEPT ![c] = Returned(proc[c], proc[c].val, ErrNil)]
  /\ bf' = [bf EXCEPT ![proc[c].key] = proc[c].val]
  /\ UNCHANGED <<workerPool, local, localRest, remote, remoteUp, jobs, nops, writes, lastSet, okRuns, multi>>

\* TwoLevelCache.Get, third step: c.local.Set of the remote value, return
TGetBackfill(c) ==
  /\ proc[c].pc = "backfill"
  /\ LET r == LocalCacheSet(local, proc[c].key, proc[c].val)
     IN /\ local' = r.cache
        /\ bf' = BfAfterSet(proc[c].key, r, proc[c].val)
  /\ proc' = [proc EXCEPT ![c] = Returned(proc[c], proc[c].val, ErrNil)]
  /\ UNCHANGED <<workerPool, localRest, remote, remoteUp, jobs, nops, writes, lastSet, okRuns, multi>>

TSet_Sync(c, id, value) ==
  /\ CanStart(c)
  /\ LET r == LocalCacheSet(local, id, value)
         w == RedisCacheSet(remote, remoteUp, id, value)
     IN /\ local' = r.cache
        /\ bf' = BfAfterSet(id, r, NoVal)
        /\ remote' = w.remote
        /\ okRuns' = [okRuns EXCEPT ![id] = IF w.err = ErrNil THEN @ + 1 ELSE @]
        /\ proc' = [proc EXCEPT ![c] = Returned([IdleProc EXCEPT !.op = "set", !.key = id],
                                                ZeroVal, w.err)]
  /\ nops' = nops + 1
  /\ writes' = [writes EXCEPT ![id] = @ + 1]
  /\ lastSet' = [lastSet EXCEPT ![id] = value]
  /\ UNCHANGED <<workerPool, localRest, remoteUp, jobs, multi>>

\* TwoLevelCache.Set: c.local.Set, spawn the goroutine, return nil
TSet(c, id, value) ==
  /\ CanStart(c)
  /\ LET r == LocalCacheSet(local, id, value)
     IN /\ local' = r.cache
        /\ bf' = BfAfterSet(id, r, NoVal)
  /\ jobs' = jobs (+) SetToBag({[op |-> "set", key |-> id, val |-> value]})
  /\ proc' = [proc EXCEPT ![c] = Returned([IdleProc EXCEPT !.op = "set", !.key = id],
                                          ZeroVal, ErrNil)]
  /\ nops' = nops + 1
  /\ writes' = [writes EXCEPT ![id] = @ + 1]
  /\ lastSet' = [lastSet EXCEPT ![id] = value]
  /\ UNCHANGED <<workerPool, localRest, remote, remoteUp, okRuns, multi>>

\* TwoLevelCache.Delete: c.local.Delete, spawn the goroutine, return nil
TDelete(c, id) ==
  /\ CanStart(c)
  /\ local' = LocalCacheDelete(local, id)
  /\ bf' = [bf EXCEPT ![id] = NoVal]
  /\ jobs' = jobs (+) SetToBag({[op |-> "del", key |-> id, val |-> ZeroVal]})
  /\ proc' = [proc EXCEPT ![c] = Returned([IdleProc EXCEPT !.op = "del", !.key = id],
                                          ZeroVal, ErrNil)]
  /\ nops' = nops + 1
  /\ writes' = [writes EXCEPT ![id] = @ + 1]
  /\ UNCHANGED <<workerPool, localRest, remote, remoteUp, lastSet, okRuns, multi>>

\* the goroutine of Set / Delete: c.remote.Set or c.remote.Delete under a
\* fresh timeout context; the error is dropped
TGoRun(job) ==
  /\ BagIn(job, jobs)
  /\ LET r == IF job.op = "set"
                THEN RedisCacheSet(remote, remoteUp, job.key, job.val)
                ELSE RedisCacheDelete(remote, remoteUp, job.key)
     IN /\ remote' = r.remote
        /\ okRuns' = [okRuns EXCEPT ![job.key] = IF r.err = ErrNil THEN @ + 1 ELSE @]
  /\ jobs' = jobs (-) SetToBag({job})
  /\ UNCHANGED <<workerPool, local, localRest, remoteUp, proc, nops, writes, lastSet, bf, multi>>

\* the environment: the remote store becomes unreachable / reachable
RemoteDown ==
  /\ remoteUp
  /\ remoteUp' = FALSE
  /\ UNCHANGED <<workerPool, local, localRest, remote, proc, jobs, nops, writes, lastSet, okRuns, bf, multi>>

RemoteRecover ==
  /\ ~remoteUp
  /\ remoteUp' = TRUE
  /\ UNCHANGED <<workerPool, local, localRest, remote, proc, jobs, nops, writes, lastSet, okRuns, bf, multi>>

NextTwo ==
  \/ \E c \in Procs, id \in CKeys : TGetLocal(c, id)
  \/ \E c \in Procs : TGetRemote(c)
  \/ \E c \in Procs : TGetBackfill(c)
  \/ \E c \in Procs, id \in CKeys, value \in Values : TSet(c, id, value)
  \/ \E c \in Procs, id \in CKeys : TDelete(c, id)
  \/ \E job \in Jobs : TGoRun(job)
  \/ RemoteDown
  \/ RemoteRecover

SpecTwo == InitTwo /\ [][NextTwo]_vars

\* every spawned goroutine is eventually scheduled
FairTwo == SpecTwo /\ \A job \in Jobs : WF_vars(TGoRun(job))

(* -------------------- MultiLevelCache specification -------------------- *)
\* proc[c] = [pc, op, key, val, err, call, en, rq, ret]:
\*   pc     the caller's position: "idle"; "enabled" (Get, before
\*          isRedisEnabled); "redis" (before redisClient.Get); "backfill"
\*          (before localCache.Set of the remote value); "do" (before
\*          singleFlight.Do); "load" (inside loadFunc); "set" (before c.Set of
\*          the loaded value); "setEnabled" / "delEnabled" (Set / Delete,
\*          before isRedisEnabled); "finish" (the call's function returned);
\*          "wait" (blocked in Do on another caller's call); "done"
\*   val    the value argument, the parsed remote value or the loaded value
\*   err    the error the loader returned
\*   call   the singleFlight call this caller leads or waits on (0: none)
\*   rq     history: outcome of this call's remote query ("none": no query)
\*   en     what c.isRedisEnabled() returned to Get
\*   ret    the returned (value, error)

keyToString(key) == <<"cache", key>>

MIdleProc == [pc |-> "idle", op |-> "none", key |-> ZeroKey, val |-> ZeroVal,
              err |-> ErrNil, call |-> 0, en |-> FALSE, rq |-> "none", ret |-> NoRet]

MReturned(p, value, err) ==
  [p EXCEPT !.pc = "done", !.val = ZeroVal, !.err = ErrNil,
            !.ret = [value |-> value, err |-> err]]

\* a call starts: overlap stays TRUE while no call has returned yet
StartOverlap == overlap /\ \A d \in Procs : proc[d].pc # "done"

InitMulti ==
  /\ NoPool
  /\ \E cap \in 1..MaxCap : local = NewLocalCache(cap, "lru")
  /\ insOrder = <<>> /\ pure = TRUE /\ evictLog = <<>> /\ recency = <<>>
  /\ lastEvicted = ZeroKey
  /\ arrival = NoArrivals
  /\ mu = Unlocked
  /\ remote \in InitialRemotes
  /\ remoteUp = TRUE
  /\ proc = [c \in Procs |-> MIdleProc]
  /\ jobs = EmptyBag
  /\ nops = 0
  /\ writes = [k \in CKeys |-> 0]
  /\ lastSet = [k \in CKeys |-> NoVal]
  /\ okRuns = [k \in CKeys |-> 0]
  /\ bf = [k \in CKeys |-> NoVal]
  /\ redisEnabled = TRUE
  /\ sfm = EmptyMap
  /\ calls = <<>>
  /\ loads = [k \in CKeys |-> 0]
  /\ recovered = FALSE
  /\ overlap = TRUE
  /\ allEarly = TRUE
  /\ wrote = {}

isRedisEnabled == redisEnabled

\* Get, step 1: c.localCache.Get
MGetLocal(c, id) ==
  /\ CanStart(c)
  /\ LET r == LocalCacheGet(local, id)
         p == [MIdleProc EXCEPT !.op = "get", !.key = id]
     IN /\ local' = r.cache
        /\ proc' = [proc EXCEPT ![c] = IF r.err = ErrNil
                                         THEN MReturned(p, r.value, ErrNil)
                                         ELSE [p EXCEPT !.pc = "enabled"]]
  /\ nops' = nops + 1
  /\ overlap' = StartOverlap
  /\ UNCHANGED <<workerPool, localRest, remote, remoteUp, jobs, twoHist,
                 redisEnabled, sfm, calls, loads, recovered, allEarly, wrote>>

MGetEnabled_Skip(c) ==
  /\ proc[c].pc = "enabled"
  /\ proc' = [proc EXCEPT ![c] = [@ EXCEPT !.en = isRedisEnabled, !.pc = "do"]]
  /\ UNCHANGED <<workerPool, local, localRest, remote, remoteUp, jobs, nops, twoHist, multi>>

\* Get, step 2: if c.isRedisEnabled()
MGetEnabled(c) ==
  /\ proc[c].pc = "enabled"
  /\ proc' = [proc EXCEPT ![c] = [@ EXCEPT !.en = isRedisEnabled,
                                            !.pc = IF isRedisEnabled THEN "redis" ELSE "do"]]
  /\ UNCHANGED <<workerPool, local, localRest, remote, remoteUp, jobs, nops, twoHist, multi>>

MGetRedis_Degrade(c) ==
  /\ proc[c].pc = "redis"
  /\ LET r == redisGet(remote, remoteUp, keyToString(proc[c].key))
         u == jsonUnmarshal(r.data)
     IN /\ proc' = [proc EXCEPT ![c] =
             IF r.err = ErrNil /\ u.err = ErrNil
               THEN [@ EXCEPT !.pc = "backfill", !.val = u.value, !.rq = "hit"]
               ELSE [@ EXCEPT !.pc = "do",
                              !.rq = IF r.err = ErrNil THEN "undecodable"
                                     ELSE IF r.err = ErrKeyNotExist THEN "miss"
                                     ELSE "transport"]]
        /\ redisEnabled' = IF r.err \in {ErrNil, ErrKeyNotExist} THEN redisEnabled ELSE FALSE
  /\ UNCHANGED <<workerPool, local, localRest, remote, remoteUp, jobs, nops, twoHist,
                 sfm, calls, loads, recovered, overlap, allEarly, wrote>>

\* Get, step 2: c.redisClient.Get and json.Unmarshal of the reply
MGetRedis(c) ==
  /\ proc[c].pc = "redis"
  /\ LET r == redisGet(remote, remoteUp, keyToString(proc[c].key))
         u == jsonUnmarshal(r.data)
     IN proc' = [proc EXCEPT ![c] =
          IF r.err = ErrNil /\ u.err = ErrNil
            THEN [@ EXCEPT !.pc = "backfill", !.val = u.value, !.rq = "hit"]
            ELSE [@ EXCEPT !.pc = "do",
                           !.rq = IF r.err = ErrNil THEN "undecodable"
                                  ELSE IF r.err = ErrKeyNotExist THEN "miss"
                                  ELSE "transport"]]
  /\ UNCHANGED <<workerPool, local, localRest, remote, remoteUp, jobs, nops, twoHist, multi>>

\* Get, step 2: c.localCache.Set of the parsed value, return it
MGetBackfill(c) ==
  /\ proc[c].pc = "backfill"
  /\ local' = LocalCacheSet(local, proc[c].key, proc[c].val).cache
  /\ proc' = [proc EXCEPT ![c] = MReturned(proc[c], proc[c].val, ErrNil)]
  /\ UNCHANGED <<workerPool, localRest, remote, remoteUp, jobs, nops, twoHist, multi>>

\* singleflight.Group.Do(key, fn), under the group's mutex: a caller that
\* finds a call registered under key waits on it; otherwise it registers a
\* new call and runs fn itself
sfDo(m, cs, key) ==
  IF key \in DOMAIN m
    THEN [m |-> m, calls |-> cs, call |-> m[key], leader |-> FALSE]
    ELSE [m |-> Put(m, key, Len(cs) + 1),
          calls |-> Append(cs, [key |-> key, done |-> FALSE, val |-> ZeroVal, err |-> ErrNil]),
          call |-> Len(cs) + 1, leader |-> TRUE]

\* the call's function has returned (val, err): the call is completed and
\* forgotten by the registry, under the group's mutex
sfComplete(m, cs, call, val, err) ==
  [m |-> IF cs[call].key \in DOMAIN m /\ m[cs[call].key] = call THEN Drop(m, cs[call].key) ELSE m,
   calls |-> [cs EXCEPT ![call] = [@ EXCEPT !.done = TRUE, !.val = val, !.err = err]]]

NoCallCompleted(key) == \A i \in 1..Len(calls) : calls[i].key = key => ~calls[i].done

MGetDo_Direct(c) ==
  /\ proc[c].pc = "do"
  /\ LET keyStr == keyToString(proc[c].key)
         r == sfDo(EmptyMap, calls, keyStr)
     IN /\ calls' = r.calls
        /\ proc' = [proc EXCEPT ![c] = [@ EXCEPT !.pc = "load", !.call = r.call]]
        /\ loads' = [loads EXCEPT ![proc[c].key] = @ + 1]
        /\ allEarly' = (allEarly /\ NoCallCompleted(keyStr))
  /\ UNCHANGED <<workerPool, local, localRest, remote, remoteUp, jobs, nops, twoHist,
                 redisEnabled, sfm, recovered, overlap, wrote>>

\* Get, step 3: c.singleFlight.Do(keyStr, ...); the leader enters loadFunc
MGetDo(c) ==
  /\ proc[c].pc = "do"
  /\ LET keyStr == keyToString(proc[c].key)
         r == sfDo(sfm, calls, keyStr)
     IN /\ sfm' = r.m
        /\ calls' = r.calls
        /\ proc' = [proc EXCEPT ![c] = [@ EXCEPT !.pc = IF r.leader THEN "load" ELSE "wait",
                                                 !.call = r.call]]
        /\ loads' = [loads EXCEPT ![proc[c].key] = IF r.leader THEN @ + 1 ELSE @]
        /\ allEarly' = (allEarly /\ NoCallCompleted(keyStr))
  /\ UNCHANGED <<workerPool, local, localRest, remote, remoteUp, jobs, nops, twoHist,
                 redisEnabled, recovered, overlap, wrote>>

MLoad_CacheOnError(c) ==
  /\ proc[c].pc = "load"
  /\ \E res \in [val : Values, err : {ErrNil}] \cup [val : {ZeroVal}, err : {ErrLoad}] :
       proc' = [proc EXCEPT ![c] = [@ EXCEPT !.pc = "set", !.val = res.val, !.err = res.err]]
  /\ UNCHANGED <<workerPool, local, localRest, remote, remoteUp, jobs, nops, twoHist, multi>>

MLoad_SkipSet(c) ==
  /\ proc[c].pc = "load"
  /\ \E res \in [val : Values, err : {ErrNil}] \cup [val : {ZeroVal}, err : {ErrLoad}] :
       proc' = [proc EXCEPT ![c] = [@ EXCEPT !.pc = "finish", !.val = res.val, !.err = res.err]]
  /\ UNCHANGED <<workerPool, local, localRest, remote, remoteUp, jobs, nops, twoHist, multi>>

\* inside fn: c.loadFunc(ctx, key) returns a value or fails
MLoad(c) ==
  /\ proc[c].pc = "load"
  /\ \E res \in [val : Values, err : {ErrNil}] \cup [val : {ZeroVal}, err : {ErrLoad}] :
       proc' = [proc EXCEPT ![c] = [@ EXCEPT !.pc = IF res.err # ErrNil THEN "finish" ELSE "set",
                                             !.val = res.val, !.err = res.err]]
  /\ UNCHANGED <<workerPool, local, localRest, remote, remoteUp, jobs, nops, twoHist, multi>>

\* inside fn: c.Set(ctx, key, val), its c.localCache.Set
MLoaderSet(c) ==
  /\ proc[c].pc = "set"
  /\ local' = LocalCacheSet(local, proc[c].key, proc[c].val).cache
  /\ proc' = [proc EXCEPT ![c].pc = "setEnabled"]
  /\ wrote' = wrote \cup {proc[c].call}
  /\ UNCHANGED <<workerPool, localRest, remote, remoteUp, jobs, nops, twoHist,
                 redisEnabled, sfm, calls, loads, recovered, overlap, allEarly>>

\* MultiLevelCache.Set called by a caller, its c.localCache.Set
MSetLocal(c, id, value) ==
  /\ CanStart(c)
  /\ local' = LocalCacheSet(local, id, value).cache
  /\ proc' = [proc EXCEPT ![c] = [MIdleProc EXCEPT !.pc = "setEnabled", !.op = "set",
                                                   !.key = id, !.val = value]]
  /\ nops' = nops + 1
  /\ overlap' = StartOverlap
  /\ UNCHANGED <<workerPool, localRest, remote, remoteUp, jobs, twoHist,
                 redisEnabled, sfm, calls, loads, recovered, allEarly, wrote>>

\* Set: if c.isRedisEnabled() spawn the goroutine; return nil (to the caller
\* of Set, or to fn, which returns the loaded value)
MSetEnabled(c) ==
  /\ proc[c].pc = "setEnabled"
  /\ jobs' = IF isRedisEnabled
               THEN jobs (+) SetToBag({[op |-> "set", key |-> proc[c].key, val |-> proc[c].val]})
               ELSE jobs
  /\ proc' = [proc EXCEPT ![c] = IF @.op = "get" THEN [@ EXCEPT !.pc = "finish"]
                                  ELSE MReturned(@, ZeroVal, ErrNil)]
  /\ UNCHANGED <<workerPool, local, localRest, remote, remoteUp, nops, twoHist, multi>>

\* MultiLevelCache.Delete called by a caller, its c.localCache.Delete
MDeleteLocal(c, id) ==
  /\ CanStart(c)
  /\ local' = LocalCacheDelete(local, id)
  /\ proc' = [proc EXCEPT ![c] = [MIdleProc EXCEPT !.pc = "delEnabled", !.op = "del",
                                                   !.key = id]]
  /\ nops' = nops + 1
  /\ overlap' = StartOverlap
  /\ UNCHANGED <<workerPool, localRest, remote, remoteUp, jobs, twoHist,
                 redisEnabled, sfm, calls, loads, recovered, allEarly, wrote>>

\* Delete: if c.isRedisEnabled() spawn the goroutine; return nil
MDeleteEnabled(c) ==
  /\ proc[c].pc = "delEnabled"
  /\ jobs' = IF isRedisEnabled
               THEN jobs (+) SetToBag({[op |-> "del", key |-> proc[c].key, val |-> ZeroVal]})
               ELSE jobs
  /\ proc' = [proc EXCEPT ![c] = MReturned(proc[c], ZeroVal, ErrNil)]
  /\ UNCHANGED <<workerPool, local, localRest, remote, remoteUp, nops, twoHist, multi>>

MGetFinish_KeepEntry(c) ==
  /\ proc[c].pc = "finish"
  /\ calls' = sfComplete(sfm, calls, proc[c].call, proc[c].val, proc[c].err).calls
  /\ proc' = [proc EXCEPT ![c] = MReturned(proc[c],
                                   IF proc[c].err # ErrNil THEN ZeroVal ELSE proc[c].val,
                                   proc[c].err)]
  /\ UNCHANGED <<workerPool, local, localRest, remote, remoteUp, jobs, nops, twoHist,
                 redisEnabled, sfm, loads, recovered, overlap, allEarly, wrote>>

\* fn has returned: Do completes the call, wakes the waiters and returns the
\* result to the leader; Get returns (zero, err) or (result, nil)
MGetFinish(c) ==
  /\ proc[c].pc = "finish"
  /\ LET r == sfComplete(sfm, calls, proc[c].call, proc[c].val, proc[c].err)
     IN /\ sfm' = r.m
        /\ calls' = r.calls
  /\ proc' = [proc EXCEPT ![c] = MReturned(proc[c],
                                   IF proc[c].err # ErrNil THEN ZeroVal ELSE proc[c].val,
                                   proc[c].err)]
  /\ UNCHANGED <<workerPool, local, localRest, remote, remoteUp, jobs, nops, twoHist,
                 redisEnabled, loads, recovered, overlap, allEarly, wrote>>

\* a waiter's Do returns the completed call's result; Get returns it
MGetWait(c) ==
  /\ proc[c].pc = "wait"
  /\ calls[proc[c].call].done
  /\ LET r == calls[proc[c].call]
     IN proc' = [proc EXCEPT ![c] = MReturned(proc[c],
                                      IF r.err # ErrNil THEN ZeroVal ELSE r.val, r.err)]
  /\ UNCHANGED <<workerPool, local, localRest, remote, remoteUp, jobs, nops, twoHist, multi>>

\* the goroutine of Set / Delete: c.redisClient.Set of the serialized value,
\* or c.redisClient.Del, with the ctx of the call that spawned it; the error
\* is dropped. The caller may have cancelled ctx by the time the goroutine
\* runs (ctxDone), and the client then fails the command without sending it.
MGoRun(job) ==
  /\ BagIn(job, jobs)
  /\ \E ctxDone \in BOOLEAN :
       remote' = IF ctxDone THEN remote
                 ELSE IF job.op = "set"
                 THEN redisSet(remote, remoteUp, keyToString(job.key), jsonMarshal(job.val)).remote
                 ELSE redisDel(remote, remoteUp, keyToString(job.key)).remote
  /\ jobs' = jobs (-) SetToBag({job})
  /\ UNCHANGED <<workerPool, local, localRest, remoteUp, proc, nops, twoHist, multi>>

MHealthCheck_Disable ==
  /\ IF redisPing(remoteUp) = ErrNil
       THEN redisEnabled' = FALSE /\ recovered' = TRUE
       ELSE UNCHANGED <<redisEnabled, recovered>>
  /\ UNCHANGED <<workerPool, local, localRest, remote, remoteUp, proc, jobs, nops, twoHist,
                 sfm, calls, loads, overlap, allEarly, wrote>>

MHealthCheck_Track ==
  /\ redisEnabled' = (redisPing(remoteUp) = ErrNil)
  /\ recovered' = (recovered \/ redisPing(remoteUp) = ErrNil)
  /\ UNCHANGED <<workerPool, local, localRest, remote, remoteUp, proc, jobs, nops, twoHist,
                 sfm, calls, loads, overlap, allEarly, wrote>>

\* healthCheck, one tick: a successful Ping sets redisEnabled to true
MHealthCheck ==
  /\ IF redisPing(remoteUp) = ErrNil
       THEN redisEnabled' = TRUE /\ recovered' = TRUE
       ELSE UNCHANGED <<redisEnabled, recovered>>
  /\ UNCHANGED <<workerPool, local, localRest, remote, remoteUp, proc, jobs, nops, twoHist,
                 sfm, calls, loads, overlap, allEarly, wrote>>

\* the environment: the remote store becomes unreachable / reachable
MRemoteDown ==
  /\ remoteUp
  /\ remoteUp' = FALSE
  /\ recovered' = FALSE
  /\ UNCHANGED <<workerPool, local, localRest, remote, proc, jobs, nops, twoHist,
                 redisEnabled, sfm, calls, loads, overlap, allEarly, wrote>>

MRemoteRecover ==
  /\ ~remoteUp
  /\ remoteUp' = TRUE
  /\ UNCHANGED <<workerPool, local, localRest, remote, proc, jobs, nops, twoHist, multi>>

NextMulti ==
  \/ \E c \in Procs, id \in CKeys : MGetLocal(c, id)
  \/ \E c \in Procs : MGetEnabled(c)
  \/ \E c \in Procs : MGetRedis(c)
  \/ \E c \in Procs : MGetBackfill(c)
  \/ \E c \in Procs : MGetDo(c)
  \/ \E c \in Procs : MLoad(c)
  \/ \E c \in Procs : MLoaderSet(c)
  \/ \E c \in Procs, id \in CKeys, value \in Values : MSetLocal(c, id, value)
  \/ \E c \in Procs : MSetEnabled(c)
  \/ \E c \in Procs, id \in CKeys : MDeleteLocal(c, id)
  \/ \E c \in Procs : MDeleteEnabled(c)
  \/ \E c \in Procs : MGetFinish(c)
  \/ \E c \in Procs : MGetWait(c)
  \/ \E job \in Jobs : MGoRun(job)
  \/ MHealthCheck
  \/ MRemoteDown
  \/ MRemoteRecover

SpecMulti == InitMulti /\ [][NextMulti]_vars

(* ------------------------------ WorkerPool ----------------------------- *)
\* wp = [tasks, size, stop, closed, workerCount, desiredWorkers, wg]:
\*   tasks   the tasks buffered in the channel wp.tasks, oldest first
\*   size    the capacity of wp.tasks
\*   stop    the channel wp.stop has been closed
\*   closed  the channel wp.tasks has been closed
\*   wg      the counter of wp.wg
\* Every access to workerCount and desiredWorkers is made inside a critical
\* section of wp.mu, so a critical section is one step.
\* worker[w] = [pc, task]: pc is the goroutine's position in worker()
\*   "none"     no goroutine in this slot
\*   "check"    top of the loop, before reading the two counts under wp.mu
\*   "select"   before the select on wp.tasks with its default branch
\*   "add"      a task was received, before wp.wg.Add(1)
\*   "run"      inside task(), before the deferred wp.wg.Done()
\*   "wait"     in the inner select on wp.stop and the 100 ms timer
\*   "exiting"  returned from the loop, before the deferred decrement
\* client[c] = [pc, op, task, ret, late]: pc is the caller's position
\*   "idle"; "submit" (Submit, in its select); "wait" (Stop, in wg.Wait);
\*   "close" (Stop, before close(wp.tasks)); "done"
\*   ret     "nil" / "error" (Submit), "returned" (Stop, Resize), "panic"
\*   late    the Submit started after Stop had been called

\* worker counts 0..MaxWorkers are passed to NewWorkerPool and Resize
MaxWorkers == 2
\* task queue sizes 1..MaxQueue
MaxQueue == 2
\* a behaviour starts at most MaxTasks Submit calls
MaxTasks == 2
\* concurrent callers 1..MaxClient of the pool
MaxClient == 2

Workers == 1..MaxWorkers
Clients == 1..MaxClient
NoTask == 0

NoWorker == [pc |-> "none", task |-> NoTask]
IdleClient == [pc |-> "idle", op |-> "none", task |-> NoTask, ret |-> "none", late |-> FALSE]

\* go wp.worker(), k times: the goroutines take the free slots
RECURSIVE Spawn(_, _)
Spawn(ws, k) ==
  IF k <= 0 THEN ws
  ELSE LET w == CHOOSE x \in DOMAIN ws : ws[x].pc = "none" /\ \A y \in DOMAIN ws : ws[y].pc = "none" => x <= y
       IN Spawn([ws EXCEPT ![w] = [pc |-> "check", task |-> NoTask]], k - 1)

\* Resize(n), its critical section: the new pool fields and the number of
\* goroutines started
Resize(p, n) ==
  LET desired == IF n < 0 THEN 0 ELSE n
      started == IF p.workerCount < desired THEN desired - p.workerCount ELSE 0
  IN [pool |-> [p EXCEPT !.desiredWorkers = desired, !.workerCount = @ + started],
      started |-> started]

NewWorkerPool(initialWorkers, taskQueueSize) ==
  Resize([tasks |-> <<>>, size |-> taskQueueSize, stop |-> FALSE, closed |-> FALSE,
          workerCount |-> 0, desiredWorkers |-> 0, wg |-> 0], initialWorkers)

\* an unrecovered panic has ended the program
Crashed == \E c \in Clients : client[c].ret = "panic"

ClientFree(c) == ~Crashed /\ client[c].pc \in {"idle", "done"}

InitPool ==
  /\ \E initialWorkers \in 0..MaxWorkers, taskQueueSize \in 1..MaxQueue :
       LET r == NewWorkerPool(initialWorkers, taskQueueSize)
       IN /\ wp = r.pool
          /\ worker = Spawn([w \in Workers |-> NoWorker], r.started)
  /\ client = [c \in Clients |-> IdleClient]
  /\ nsub = 0 /\ accepted = {} /\ finished = {} /\ owed = {} /\ lowered = FALSE
  /\ local = NewLocalCache(0, "lru")
  /\ insOrder = <<>> /\ pure = TRUE /\ evictLog = <<>> /\ recency = <<>>
  /\ lastEvicted = ZeroKey /\ arrival = NoArrivals /\ mu = Unlocked
  /\ remote = EmptyMap /\ remoteUp = TRUE /\ proc = EmptyMap /\ jobs = EmptyBag
  /\ nops = 0 /\ writes = EmptyMap /\ lastSet = EmptyMap /\ okRuns = EmptyMap
  /\ bf = EmptyMap
  /\ redisEnabled = TRUE /\ sfm = EmptyMap /\ calls = <<>> /\ loads = EmptyMap
  /\ recovered = FALSE /\ overlap = TRUE /\ allEarly = TRUE /\ wrote = {}

\* Resize(n), called by c
PResize(c, n) ==
  /\ ClientFree(c)
  /\ LET r == Resize(wp, n)
     IN /\ wp' = r.pool
        /\ worker' = Spawn(worker, r.started)
  /\ lowered' = ((IF n < 0 THEN 0 ELSE n) < wp.desiredWorkers)
  /\ client' = [client EXCEPT ![c] = [IdleClient EXCEPT !.pc = "done", !.op = "resize",
                                                        !.ret = "returned"]]
  /\ UNCHANGED <<cacheVars, nsub, accepted, finished, owed>>

\* worker(): the loop reads desiredWorkers and workerCount under wp.mu and
\* returns when current > desired
WCheck(w) ==
  /\ ~Crashed
  /\ worker[w].pc = "check"
  /\ LET desired == wp.desiredWorkers
         current == wp.workerCount
     IN worker' = [worker EXCEPT ![w].pc = IF current > desired THEN "exiting" ELSE "select"]
  /\ UNCHANGED <<cacheVars, wp, client, nsub, accepted, finished, owed, lowered>>

\* worker(): select { case task, ok := <-wp.tasks: ...; default: ... }
WSelect(w) ==
  /\ ~Crashed
  /\ worker[w].pc = "select"
  /\ IF Len(wp.tasks) > 0
       THEN /\ worker' = [worker EXCEPT ![w] = [pc |-> "add", task |-> Head(wp.tasks)]]
            /\ wp' = [wp EXCEPT !.tasks = Tail(@)]
       ELSE /\ worker' = [worker EXCEPT ![w].pc = IF wp.closed THEN "exiting" ELSE "wait"]
            /\ wp' = wp
  /\ UNCHANGED <<cacheVars, client, nsub, accepted, finished, owed, lowered>>

\* worker(): wp.wg.Add(1)
WAdd(w) ==
  /\ ~Crashed
  /\ worker[w].pc = "add"
  /\ wp' = [wp EXCEPT !.wg = @ + 1]
  /\ worker' = [worker EXCEPT ![w].pc = "run"]
  /\ UNCHANGED <<cacheVars, client, nsub, accepted, finished, owed, lowered>>

\* worker(): task() returns, the deferred wp.wg.Done(), back to the loop
WRun(w) ==
  /\ ~Crashed
  /\ worker[w].pc = "run"
  /\ finished' = finished \cup {worker[w].task}
  /\ wp' = [wp EXCEPT !.wg = @ - 1]
  /\ worker' = [worker EXCEPT ![w] = [pc |-> "check", task |-> NoTask]]
  /\ UNCHANGED <<cacheVars, client, nsub, accepted, owed, lowered>>

\* worker(), inner select: the timer fires, back to the loop
WTimer(w) ==
  /\ ~Crashed
  /\ worker[w].pc = "wait"
  /\ worker' = [worker EXCEPT ![w].pc = "check"]
  /\ UNCHANGED <<cacheVars, wp, client, nsub, accepted, finished, owed, lowered>>

\* worker(), inner select: case <-wp.stop, return
WStopped(w) ==
  /\ ~Crashed
  /\ worker[w].pc = "wait"
  /\ wp.stop
  /\ worker' = [worker EXCEPT ![w].pc = "exiting"]
  /\ UNCHANGED <<cacheVars, wp, client, nsub, accepted, finished, owed, lowered>>

\* worker(), the deferred function: wp.workerCount-- under wp.mu
WExit(w) ==
  /\ ~Crashed
  /\ worker[w].pc = "exiting"
  /\ wp' = [wp EXCEPT !.workerCount = @ - 1]
  /\ worker' = [worker EXCEPT ![w] = NoWorker]
  /\ UNCHANGED <<cacheVars, client, nsub, accepted, finished, owed, lowered>>

\* Submit(task) is called by c and reaches its select
PSubmitCall(c) ==
  /\ ClientFree(c)
  /\ nsub < MaxTasks
  /\ nsub' = nsub + 1
  /\ client' = [client EXCEPT ![c] = [pc |-> "submit", op |-> "submit", task |-> nsub + 1,
                                      ret |-> "none", late |-> wp.stop]]
  /\ UNCHANGED <<cacheVars, wp, worker, accepted, finished, owed, lowered>>

\* Submit: case wp.tasks <- task, ready while the buffer has a free slot;
\* return nil
PSubmitSend(c) ==
  /\ ~Crashed
  /\ client[c].pc = "submit"
  /\ ~wp.closed
  /\ Len(wp.tasks) < wp.size
  /\ wp' = [wp EXCEPT !.tasks = Append(@, client[c].task)]
  /\ accepted' = accepted \cup {client[c].task}
  /\ client' = [client EXCEPT ![c] = [@ EXCEPT !.pc = "done", !.ret = "nil"]]
  /\ UNCHANGED <<cacheVars, worker, nsub, finished, owed, lowered>>

\* Submit: case wp.tasks <- task chosen when wp.tasks is closed: the send
\* panics
PSubmitPanic(c) ==
  /\ ~Crashed
  /\ client[c].pc = "submit"
  /\ wp.closed
  /\ client' = [client EXCEPT ![c] = [@ EXCEPT !.pc = "done", !.ret = "panic"]]
  /\ UNCHANGED <<cacheVars, wp, worker, nsub, accepted, finished, owed, lowered>>

PSubmitStopped_Full(c) ==
  /\ ~Crashed
  /\ client[c].pc = "submit"
  /\ wp.stop \/ Len(wp.tasks) >= wp.size
  /\ client' = [client EXCEPT ![c] = [@ EXCEPT !.pc = "done", !.ret = "error"]]
  /\ UNCHANGED <<cacheVars, wp, worker, nsub, accepted, finished, owed, lowered>>

\* Submit: case <-wp.stop, ready once wp.stop is closed; return the error
PSubmitStopped(c) ==
  /\ ~Crashed
  /\ client[c].pc = "submit"
  /\ wp.stop
  /\ client' = [client EXCEPT ![c] = [@ EXCEPT !.pc = "done", !.ret = "error"]]
  /\ UNCHANGED <<cacheVars, wp, worker, nsub, accepted, finished, owed, lowered>>

\* Stop() is called by c: close(wp.stop), which panics on a closed channel
PStopCall(c) ==
  /\ ClientFree(c)
  /\ IF wp.stop
       THEN /\ client' = [client EXCEPT ![c] = [IdleClient EXCEPT !.pc = "done", !.op = "stop",
                                                                  !.ret = "panic"]]
            /\ UNCHANGED <<wp, owed>>
       ELSE /\ client' = [client EXCEPT ![c] = [IdleClient EXCEPT !.pc = "wait", !.op = "stop"]]
            /\ wp' = [wp EXCEPT !.stop = TRUE]
            /\ owed' = accepted
  /\ UNCHANGED <<cacheVars, worker, nsub, accepted, finished, lowered>>

\* Stop: wp.wg.Wait() returns when the counter is zero
PStopWait(c) ==
  /\ ~Crashed
  /\ client[c].pc = "wait"
  /\ wp.wg = 0
  /\ client' = [client EXCEPT ![c].pc = "close"]
  /\ UNCHANGED <<cacheVars, wp, worker, nsub, accepted, finished, owed, lowered>>

\* Stop: close(wp.tasks), return
PStopClose(c) ==
  /\ ~Crashed
  /\ client[c].pc = "close"
  /\ wp' = [wp EXCEPT !.closed = TRUE]
  /\ client' = [client EXCEPT ![c] = [@ EXCEPT !.pc = "done", !.ret = "returned"]]
  /\ UNCHANGED <<cacheVars, worker, nsub, accepted, finished, owed, lowered>>

NextPool ==
  \/ \E c \in Clients, n \in (-1)..MaxWorkers : PResize(c, n)
  \/ \E w \in Workers : WCheck(w)
  \/ \E w \in Workers : WSelect(w)
  \/ \E w \in Workers : WAdd(w)
  \/ \E w \in Workers : WRun(w)
  \/ \E w \in Workers : WTimer(w)
  \/ \E w \in Workers : WStopped(w)
  \/ \E w \in Workers : WExit(w)
  \/ \E c \in Clients : PSubmitCall(c)
  \/ \E c \in Clients : PSubmitSend(c)
  \/ \E c \in Clients : PSubmitPanic(c)
  \/ \E c \in Clients : PSubmitStopped(c)
  \/ \E c \in Clients : PStopCall(c)
  \/ \E c \in Clients : PStopWait(c)
  \/ \E c \in Clients : PStopClose(c)

SpecPool == InitPool /\ [][NextPool]_vars

(* ------------------------ claims: LocalCache --------------------------- *)

Resident == DOMAIN local.store
Max(a, b) == IF a >= b THEN a ELSE b

\* C1: the number of keys resident in the value mapping never exceeds the
\* capacity, for LRU and LFU, under any sequence of Set, Get and Delete.
C1_CapacityInvariant == Cardinality(Resident) <= local.capacity

\* C1 witness: an LFU cache that is full right after a Set that evicted.
C1_Witness ==
  /\ local.policy.kind = "lfu"
  /\ lastEvicted # ZeroKey
  /\ Cardinality(Resident) = local.capacity

\* C2: the value mapping and the policy agree on membership, and every
\* tracked key has exactly one tracking entry (list position / bucket slot).
C2_MembershipAgreement ==
  /\ Resident = PolicyKeys(local.policy)
  /\ \A key \in Keys :
       PolicyEntries(local.policy, key) = IF key \in Resident THEN 1 ELSE 0

\* C2 witness: an LFU cache holding two keys, one of which has been
\* incremented to frequency 2 (so it has moved between buckets).
C2_Witness ==
  /\ local.policy.kind = "lfu"
  /\ Cardinality(Resident) = 2
  /\ \E key \in Resident : local.policy.elements[key] = 2

\* C9: LRU order law. While only distinct new keys k1..kn have been Set (no
\* Get, no Delete), the keys evicted so far are exactly k1..k(n-C) in that
\* order and the resident keys are exactly the last min(n, C) keys.
C9_LRUOrderLaw ==
  (local.policy.kind = "lru" /\ pure) =>
    LET n == Len(insOrder)
        e == Max(0, n - local.capacity)
    IN /\ evictLog = SubSeq(insOrder, 1, e)
       /\ Resident = {insOrder[i] : i \in (e + 1)..n}

\* C9 witness: n = C + 2 distinct keys were Set on an LRU cache, so two
\* evictions have happened.
C9_Witness ==
  /\ local.policy.kind = "lru"
  /\ pure
  /\ Len(insOrder) = local.capacity + 2
  /\ Len(evictLog) = 2

\* C10: LRU recency law. Whenever a call on an LRU cache evicts a key, that
\* key is the resident key whose most recent Get or Set is the oldest (the
\* last key of the recency history before the call).
C10_LRURecencyLaw ==
  [][(local.policy.kind = "lru" /\ lastEvicted' # ZeroKey)
       => (recency # <<>> /\ lastEvicted' = Back(recency))]_vars

\* C10 witness: capacity 2, Set 1, Set 2, Get 1, Set 3 has evicted 2, not 1.
C10_Witness ==
  /\ local.policy.kind = "lru"
  /\ local.capacity = 2
  /\ lastEvicted = 2
  /\ recency = <<3, 1>>
  /\ Resident = {1, 3}

\* the smallest access count any resident key has (0: no key)
MinCount(a) ==
  IF \E f \in DOMAIN a : a[f] # <<>>
    THEN CHOOSE f \in DOMAIN a : a[f] # <<>> /\ \A g \in DOMAIN a : g < f => a[g] = <<>>
    ELSE 0

\* C11: LFU frequency law. A Set of a new key on an LFU cache at capacity
\* evicts a resident key, and the key a call evicts has the smallest access
\* count (1 at insertion, +1 per Get or overwriting Set) of all resident
\* keys and, among the keys with that count, reached it first.
C11_LFUFrequencyLaw ==
  [][(/\ local.policy.kind = "lfu"
      /\ \/ lastEvicted' # ZeroKey
         \/ (Cardinality(Resident) >= local.capacity /\ Resident' \ Resident # {}))
       => (/\ lastEvicted' \in Resident
           /\ lastEvicted' \notin Resident'
           /\ CountOf(arrival, lastEvicted') = MinCount(arrival)
           /\ lastEvicted' = Head(arrival[MinCount(arrival)]))]_vars

\* C11 witness: capacity 2, key 1 was accessed up to count 4 and the Set of
\* key 3 has evicted key 2.
C11_Witness ==
  /\ local.policy.kind = "lfu"
  /\ local.capacity = 2
  /\ lastEvicted = 2
  /\ Resident = {1, 3}
  /\ CountOf(arrival, 1) = 4
  /\ CountOf(arrival, 3) = 1

\* C12: LFU minimum-frequency invariant. While the policy tracks a key, the
\* bucket at minFreq exists and is non-empty, and minFreq is the smallest
\* frequency of any tracked key.
C12_MinFreqInvariant ==
  (local.policy.kind = "lfu" /\ DOMAIN local.policy.elements # {}) =>
    /\ local.policy.minFreq \in DOMAIN local.policy.freqMap
    /\ local.policy.freqMap[local.policy.minFreq] # <<>>
    /\ \A key \in DOMAIN local.policy.elements :
         local.policy.elements[key] >= local.policy.minFreq

\* the policy has recorded one more access of a tracked key: the key is the
\* most recent one (LRU), its frequency has grown by one (LFU)
AccessCounted(key) ==
  IF local.policy.kind = "lfu"
    THEN /\ key \in DOMAIN local'.policy.elements
         /\ local'.policy.elements[key] = local.policy.elements[key] + 1
    ELSE local'.policy.ll # <<>> /\ Head(local'.policy.ll) = key

\* C22: a Set removes at most one resident key, and only when the key set
\* is new and the store is at or above capacity; a Set of a resident key
\* overwrites its value, counts as an access, evicts nothing and leaves the
\* set of resident keys unchanged; after Set(K, V), K is resident with V;
\* the values of the keys that stay are unchanged.
C22_SetEffect ==
  [][\A key \in Keys, value \in Values :
       LSet(key, value) =>
         /\ Cardinality(Resident \ Resident') <= 1
         /\ Resident \ Resident' # {} =>
              (key \notin Resident /\ Cardinality(Resident) >= local.capacity)
         /\ key \in Resident =>
              (Resident' = Resident /\ lastEvicted' = ZeroKey /\ AccessCounted(key))
         /\ key \in Resident' /\ local'.store[key] = value
         /\ Resident' \subseteq Resident \cup {key}
         /\ \A k \in Resident' \ {key} : local'.store[k] = local.store[k]]_vars

\* C22 witness: an LRU cache of capacity 2 held keys 1 and 2; the Set of
\* the new key 3 with value 1 has removed key 1 and nothing else.
C22_Witness ==
  /\ local.policy.kind = "lru"
  /\ local.capacity = 2
  /\ lastEvicted = 1
  /\ Resident = {2, 3}
  /\ local.store[3] = 1
  /\ Head(recency) = 3

\* the keys in the order repeated calls of the policy's Evict return them
RECURSIVE EvictionOrder(_)
EvictionOrder(p) ==
  LET ev == PolicyEvict(p)
  IN IF ev.ok THEN <<ev.key>> \o EvictionOrder(ev.policy) ELSE <<>>

\* the keys the policy tracks, in the order of its lists: the recency list
\* (LRU), the frequency buckets by ascending frequency (LFU)
RECURSIVE BucketOrder(_, _)
BucketOrder(p, fs) ==
  IF fs = {} THEN <<>>
  ELSE LET f == CHOOSE x \in fs : \A y \in fs : x <= y
       IN p.freqMap[f] \o BucketOrder(p, fs \ {f})
TrackOrder(p) == IF p.kind = "lfu" THEN BucketOrder(p, DOMAIN p.freqMap) ELSE p.ll

Without(l, key) == SelectSeq(l, LAMBDA x : x # key)

\* C23: Delete(K) succeeds in every state, K resident or not; afterwards K
\* is in neither the value mapping nor the policy's tracking state and
\* Get(K) fails with not-found; the other keys keep their values, their
\* order in the policy's lists and their relative eviction order; and K
\* becomes resident again only by a Set(K).
C23_DeleteEffect ==
  /\ [](\A key \in Keys : ENABLED LDelete(key))
  /\ [][\A key \in Keys :
          LDelete(key) =>
            /\ key \notin Resident'
            /\ key \notin PolicyKeys(local'.policy)
            /\ PolicyEntries(local'.policy, key) = 0
            /\ LocalCacheGet(local', key).err = ErrKeyNotExist
            /\ Resident' = Resident \ {key}
            /\ \A k \in Resident' : local'.store[k] = local.store[k]
            /\ TrackOrder(local'.policy) = Without(TrackOrder(local.policy), key)
            /\ EvictionOrder(local'.policy) = Without(EvictionOrder(local.policy), key)]_vars
  /\ [][\A key \in Keys :
          (key \notin Resident /\ key \in Resident')
            => \E value \in Values : LSet(key, value)]_vars

\* C23 witness: an LFU cache in which key 1 was accessed twice, key 2 was
\* Set and then deleted: key 2 is gone from mapping and policy while the
\* minimum-frequency marker still has the value key 2's insertion gave it.
C23_Witness ==
  /\ local.policy.kind = "lfu"
  /\ Resident = {1}
  /\ local.policy.elements[1] = 2
  /\ local.policy.minFreq = 1
  /\ 2 \notin PolicyKeys(local.policy)
  /\ PolicyEntries(local.policy, 2) = 0

\* an increment of key empties the bucket the marker designates
EmptiesMinBucket(p, key) ==
  /\ key \in DOMAIN p.elements
  /\ p.elements[key] = p.minFreq
  /\ lfuList(p, p.minFreq) = <<key>>

C30_EvictAlwaysFinds ==
  [][\A key \in Keys, value \in Values :
       (/\ LSet(key, value)
        /\ key \notin Resident
        /\ Cardinality(Resident) >= local.capacity)
         => /\ PolicyEvict(local.policy).ok
            /\ PolicyEvict(local.policy).key \in Resident
            /\ lastEvicted' = PolicyEvict(local.policy).key
            /\ Resident' = (Resident \ {lastEvicted'}) \cup {key}
            /\ Cardinality(Resident') = local.capacity]_vars

\* C30 witness: an LFU cache of capacity 2 in which a key was deleted (the
\* marker went stale), the cache was refilled and a further Set evicted.
C30_Witness ==
  /\ local.policy.kind = "lfu"
  /\ local.capacity = 2
  /\ lastEvicted = 3
  /\ Resident = {1, 2}
  /\ local.policy.elements[1] = 3
  /\ local.policy.minFreq = 1

(* -------------------------- claims: WorkerPool ------------------------- *)

\* some branch of the select of Submit is ready for caller c
SubmitReady(c) == ENABLED (PSubmitSend(c) \/ PSubmitPanic(c) \/ PSubmitStopped(c))

\* C24: on a pool that has not been stopped Submit never returns an error:
\* a Submit returns an error (or panics) only on a stopped pool; a Submit
\* that completes on a pool not stopped returns nil and has placed its task
\* at the end of the queue, which had a free slot; and while the pool is not
\* stopped a Submit can complete exactly when the queue has a free slot
\* (it blocks while the queue is full).
C24_SubmitOnLivePool ==
  /\ [](\A c \in Clients :
          (client[c].op = "submit" /\ client[c].ret \in {"error", "panic"}) => wp.stop)
  /\ [][\A c \in Clients :
          (client[c].pc = "submit" /\ client'[c].pc = "done" /\ ~wp.stop)
            => /\ client'[c].ret = "nil"
               /\ Len(wp.tasks) < wp.size
               /\ wp'.tasks = Append(wp.tasks, client[c].task)]_vars
  /\ [](\A c \in Clients :
          (client[c].pc = "submit" /\ ~wp.stop)
            => (SubmitReady(c) <=> Len(wp.tasks) < wp.size))

\* C24 witness: on a pool not stopped one Submit has returned nil and filled
\* the queue, and a second Submit is blocked on the full queue.
C24_Witness ==
  /\ ~wp.stop
  /\ Len(wp.tasks) = wp.size
  /\ \E c, d \in Clients :
       /\ client[c].op = "submit" /\ client[c].ret = "nil"
       /\ client[d].pc = "submit" /\ ~SubmitReady(d)

\* C25: a Submit that started after Stop was called has returned an error:
\* it has neither enqueued its task and returned nil nor panicked.
C25_SubmitAfterStopFails ==
  \A c \in Clients :
    (client[c].op = "submit" /\ client[c].late /\ client[c].pc = "done")
      => (client[c].ret = "error" /\ client[c].task \notin accepted)

\* C28: when Stop has returned on a pool that is to have workers, every task
\* that Submit accepted before Stop was called has finished executing.
C28_StopWaitsForQueue ==
  \A c \in Clients :
    (client[c].op = "stop" /\ client[c].ret = "returned" /\ wp.desiredWorkers > 0)
      => owed \subseteq finished

\* the worker goroutines that have not exited
Live == {w \in Workers : worker[w].pc # "none"}

\* C29: after a Resize lowered the desired worker count, with no later
\* Resize or Stop, the number of live workers never drops below the desired
\* count.
C29_OnlyExcessWorkersExit ==
  (lowered /\ ~wp.stop) => Cardinality(Live) >= wp.desiredWorkers

(* ---------------------- claims: MultiLevelCache ------------------------ *)

\* what Get returns for a completed singleFlight call
CallResult(call) ==
  [value |-> IF call.err # ErrNil THEN ZeroVal ELSE call.val, err |-> call.err]

\* every caller has made exactly one call, a Get of key, all of them started
\* before any returned, each found key absent from both tiers, all returned
ConcurrentMisses(key) ==
  /\ nops = Cardinality(Procs)
  /\ overlap
  /\ \A c \in Procs : /\ proc[c].op = "get"
                      /\ proc[c].key = key
                      /\ proc[c].pc = "done"
                      /\ proc[c].rq = "miss"

\* C3 as stated: N concurrent Gets of a key absent from both tiers invoke the
\* loader exactly once, and all N return the result of that invocation.
C3_LoaderExactlyOnce ==
  \A key \in CKeys :
    ConcurrentMisses(key) =>
      /\ loads[key] = 1
      /\ \A c \in Procs : proc[c].ret = CallResult(calls[1])

\* C3 amended: in that scenario every Get returns the result of the loader
\* invocation it joined and the loader runs between once and N times; it
\* runs exactly once, all N Gets returning its result, when every caller
\* entered the registry before any invocation for the key had completed.
C3_Deduplication ==
  \A key \in CKeys :
    ConcurrentMisses(key) =>
      /\ loads[key] >= 1 /\ loads[key] <= Cardinality(Procs)
      /\ \A c \in Procs : /\ proc[c].call \in 1..Len(calls)
                          /\ calls[proc[c].call].done
                          /\ proc[c].ret = CallResult(calls[proc[c].call])
      /\ allEarly => /\ loads[key] = 1
                     /\ \A c \in Procs : proc[c].ret = CallResult(calls[1])

\* C3 witness: all callers shared one invocation (one led, the others waited).
C3_Witness ==
  \E key \in CKeys : ConcurrentMisses(key) /\ allEarly /\ loads[key] = 1

\* C4: at every moment at most one loader invocation per key is in flight.
C4_OneLoaderInFlight ==
  \A key \in CKeys :
    Cardinality({c \in Procs : proc[c].pc = "load" /\ proc[c].key = key}) <= 1

\* C4 witness: one caller is inside the loader while another caller of the
\* same key is blocked on its call.
C4_Witness ==
  \E c, d \in Procs : /\ proc[c].pc = "load" /\ proc[d].pc = "wait"
                      /\ proc[c].key = proc[d].key /\ proc[c].call = proc[d].call

\* C5: when the loader fails, the leader goes straight to completing the
\* call (no Set), every Get on that call returns the zero value with the
\* loader's error, and none of these steps writes LocalCache, the remote
\* store or spawns a remote write.
C5_LoaderErrorNotCached ==
  /\ [][\A c \in Procs :
          (proc[c].pc = "load" /\ proc'[c].pc # "load" /\ proc'[c].err # ErrNil)
            => (proc'[c].pc = "finish" /\ UNCHANGED <<local, remote, jobs>>)]_vars
  /\ [][\A c \in Procs :
          (/\ proc[c].pc \in {"finish", "wait"}
           /\ proc'[c].pc = "done"
           /\ (IF proc[c].pc = "finish" THEN proc[c].err
                                        ELSE calls[proc[c].call].err) # ErrNil)
            => (/\ proc'[c].ret = [value |-> ZeroVal, err |-> ErrLoad]
                /\ UNCHANGED <<local, remote, jobs>>)]_vars

\* C5 witness: the leader and a waiter of one call both returned the
\* loader's error.
C5_Witness ==
  \E c, d \in Procs : /\ c # d
                      /\ proc[c].pc = "done" /\ proc[d].pc = "done"
                      /\ proc[c].call = proc[d].call /\ proc[c].call # 0
                      /\ proc[c].ret.err = ErrLoad /\ proc[d].ret.err = ErrLoad

LoaderStages == {"do", "load", "set", "setEnabled", "finish", "wait"}

\* C6: a Get whose remote query failed with a transport error returns the
\* result of the loader call it fell back to; once a health probe has
\* succeeded (and no outage began since) the remote tier is enabled, and a
\* Get that read the tier as enabled reaches the loader path only after it
\* has queried the remote store.
C6_DegradeRecover ==
  /\ \A c \in Procs :
       (proc[c].pc = "done" /\ proc[c].op = "get" /\ proc[c].rq = "transport")
         => /\ proc[c].call \in 1..Len(calls)
            /\ calls[proc[c].call].done
            /\ proc[c].ret = CallResult(calls[proc[c].call])
  /\ recovered => redisEnabled
  /\ \A c \in Procs :
       (/\ proc[c].op = "get"
        /\ proc[c].pc \in LoaderStages \/ (proc[c].pc = "done" /\ proc[c].call # 0)
        /\ proc[c].en)
         => proc[c].rq # "none"

\* C6 witness: one Get hit the outage and returned the loaded value; the
\* store is reachable again, a probe has succeeded, and another Get has
\* read the tier as enabled and is about to query the remote store.
C6_Witness ==
  /\ recovered /\ remoteUp
  /\ \E c, d \in Procs :
       /\ proc[c].pc = "done" /\ proc[c].op = "get" /\ proc[c].rq = "transport"
       /\ proc[c].ret.err = ErrNil
       /\ proc[d].pc = "redis" /\ proc[d].en

(* ----------------------- claims: TwoLevelCache ------------------------- *)

\* a step in which a call starts, writes nothing and sends no caller on to
\* the remote cache: a Get served by LocalCache
LocalHitStep ==
  /\ nops' = nops + 1
  /\ writes' = writes
  /\ \A c \in Procs : proc'[c].pc = "remote" => proc[c].pc = "remote"

\* C7: read-through. A Get that hits LocalCache returns the stored value
\* and issues no remote call; a Get that misses LocalCache and finds the
\* encoding of V in the remote cache takes V, backfills LocalCache with it
\* and returns it; and while a backfilled key is neither written, deleted
\* nor evicted, LocalCache keeps holding the backfilled value for it.
C7_ReadThrough ==
  /\ [][LocalHitStep =>
          /\ \E c \in Procs :
               /\ proc[c].pc \in {"idle", "done"}
               /\ proc'[c].op = "get" /\ proc'[c].pc = "done"
               /\ proc'[c].key \in Resident
               /\ proc'[c].ret = [value |-> local.store[proc'[c].key], err |-> ErrNil]
               /\ proc'[c].rc = 0
               /\ \A d \in Procs \ {c} : proc'[d] = proc[d]
          /\ UNCHANGED <<remote, jobs>>]_vars
  /\ [][\A c \in Procs :
          /\ (/\ proc[c].pc = "remote" /\ proc'[c].pc # "remote" /\ remoteUp
              /\ keyFunc(proc[c].key) \in DOMAIN remote
              /\ remote[keyFunc(proc[c].key)].kind = "json")
               => /\ proc'[c].pc = "backfill"
                  /\ proc'[c].val = remote[keyFunc(proc[c].key)].val
          /\ (proc[c].pc = "backfill" /\ proc'[c].pc = "done")
               => /\ proc[c].key \in DOMAIN local'.store
                  /\ local'.store[proc[c].key] = proc[c].val
                  /\ proc'[c].ret = [value |-> proc[c].val, err |-> ErrNil]]_vars
  /\ [](\A key \in CKeys :
          bf[key] # NoVal => (key \in Resident /\ local.store[key] = bf[key]))

\* C7 witness: one Get of a key was served by the remote cache (one remote
\* call) and backfilled; a later Get of the key was served by LocalCache
\* with the same value and no remote call.
C7_Witness ==
  \E c, d \in Procs :
    /\ proc[c].pc = "done" /\ proc[c].op = "get" /\ proc[c].rc = 1
    /\ proc[d].pc = "done" /\ proc[d].op = "get" /\ proc[d].rc = 0
    /\ proc[c].key = proc[d].key
    /\ proc[c].ret.err = ErrNil /\ proc[d].ret = proc[c].ret
    /\ bf[proc[c].key] = proc[c].ret.value

C13_DecodeFailureReturned ==
  [][\A c \in Procs :
       (/\ proc[c].pc = "remote" /\ proc'[c].pc # "remote" /\ remoteUp
        /\ keyFunc(proc[c].key) \in DOMAIN remote
        /\ remote[keyFunc(proc[c].key)].kind = "raw")
         => (/\ proc'[c].pc = "done"
             /\ proc'[c].ret = [value |-> ZeroVal, err |-> ErrUnmarshal])]_vars

\* C14: on a LocalCache miss, TwoLevelCache.Get returns not-found when the
\* remote cache reports the key absent and the remote error itself when the
\* remote call fails otherwise; the local lookup that missed and the failed
\* remote lookup leave LocalCache unchanged.
C14_RemoteErrorPropagated ==
  [][\A c \in Procs :
       /\ (proc[c].pc \in {"idle", "done"} /\ proc'[c].pc = "remote") => local' = local
       /\ (/\ proc[c].pc = "remote" /\ proc'[c].pc # "remote"
           /\ remoteUp /\ keyFunc(proc[c].key) \notin DOMAIN remote)
            => (/\ proc'[c].pc = "done"
                /\ proc'[c].ret = [value |-> ZeroVal, err |-> ErrKeyNotExist]
                /\ local' = local)
       /\ (proc[c].pc = "remote" /\ proc'[c].pc # "remote" /\ ~remoteUp)
            => (/\ proc'[c].pc = "done"
                /\ proc'[c].ret = [value |-> ZeroVal, err |-> ErrTransport]
                /\ local' = local)]_vars

\* C14 witness: one Get returned not-found from the remote cache, another
\* returned the transport error, and LocalCache holds nothing.
C14_Witness ==
  /\ Resident = {}
  /\ \E c, d \in Procs :
       /\ proc[c].pc = "done" /\ proc[c].op = "get" /\ proc[c].rc = 1
       /\ proc[c].ret.err = ErrKeyNotExist
       /\ proc[d].pc = "done" /\ proc[d].op = "get" /\ proc[d].rc = 1
       /\ proc[d].ret.err = ErrTransport

\* C15: a returned TwoLevelCache.Set has returned nil; the step in which
\* Set(K, V) spawns its goroutine and returns leaves V in LocalCache for K;
\* and the step of a goroutine changes no caller's result.
C15_SetNeverFails ==
  /\ [](\A c \in Procs :
          (proc[c].op = "set" /\ proc[c].pc = "done")
            => proc[c].ret = [value |-> ZeroVal, err |-> ErrNil])
  /\ [][\A job \in Jobs :
          (job.op = "set" /\ jobs' = jobs (+) SetToBag({job}))
            => (/\ job.key \in DOMAIN local'.store
                /\ local'.store[job.key] = job.val
                /\ \E c \in Procs : /\ proc'[c].op = "set" /\ proc'[c].key = job.key
                                    /\ proc'[c].pc = "done"
                                    /\ proc'[c].ret.err = ErrNil)]_vars
  /\ [][\A job \in Jobs : (jobs' = jobs (-) SetToBag({job}) /\ jobs' # jobs)
                            => proc' = proc]_vars

\* C15 witness: the only write to a key was a Set that returned nil and left
\* its value in LocalCache, and its goroutine has run and failed.
C15_Witness ==
  \E key \in CKeys, c \in Procs :
    /\ writes[key] = 1 /\ lastSet[key] # NoVal /\ okRuns[key] = 0
    /\ jobs = EmptyBag
    /\ proc[c].op = "set" /\ proc[c].key = key /\ proc[c].pc = "done"
    /\ proc[c].ret.err = ErrNil
    /\ key \in Resident /\ local.store[key] = lastSet[key]

\* C16: the remote write or delete spawned by Set or Delete is not linked
\* to the caller's cancellation: whenever a spawned goroutine runs with the
\* remote store reachable, its write or delete is applied to the store.
C16_PropagationNotCancelled ==
  [][\A job \in Jobs :
       (jobs' = jobs (-) SetToBag({job}) /\ jobs' # jobs /\ remoteUp)
         => remote' = IF job.op = "set"
                        THEN Put(remote, keyToString(job.key), jsonMarshal(job.val))
                        ELSE Drop(remote, keyToString(job.key))]_vars

\* C18: a Get that returns a loaded value (leader or waiter of a
\* singleFlight call) returns after the call's function has written the
\* value to LocalCache, and that write stores the loaded value under the key.
C18_LocalWriteBeforeReturn ==
  /\ [](\A c \in Procs :
          (/\ proc[c].pc = "done" /\ proc[c].op = "get" /\ proc[c].call # 0
           /\ proc[c].ret.err = ErrNil)
            => proc[c].call \in wrote)
  /\ [][\A i \in wrote' \ wrote :
          \E c \in Procs : /\ proc[c].call = i /\ proc[c].pc = "set"
                           /\ proc[c].key \in DOMAIN local'.store
                           /\ local'.store[proc[c].key] = proc[c].val
                           /\ calls[i].done = FALSE]_vars

\* C18 witness: the leader and a waiter of one call have both returned the
\* loaded value, after the call's local write.
C18_Witness ==
  \E c, d \in Procs :
    /\ c # d
    /\ proc[c].pc = "done" /\ proc[d].pc = "done"
    /\ proc[c].call # 0 /\ proc[c].call = proc[d].call
    /\ proc[c].ret.err = ErrNil /\ proc[d].ret = proc[c].ret
    /\ proc[c].call \in wrote

\* C19: the registry holds no completed call, and a Get that reaches Do
\* when every earlier call for its key has completed starts a new loader
\* invocation under a new call instead of joining an earlier one.
C19_FreshAttemptAfterCompletion ==
  /\ [](\A k \in DOMAIN sfm : ~calls[sfm[k]].done)
  /\ [][\A c \in Procs :
          (/\ proc[c].pc = "do" /\ proc'[c].pc # "do"
           /\ \A i \in 1..Len(calls) :
                calls[i].key = keyToString(proc[c].key) => calls[i].done)
            => (/\ proc'[c].pc = "load"
                /\ proc'[c].call = Len(calls) + 1
                /\ loads'[proc[c].key] = loads[proc[c].key] + 1)]_vars

\* C19 witness: the first call for a key has completed and a later Get that
\* missed both tiers is inside a second loader invocation for the key.
C19_Witness ==
  \E c \in Procs :
    /\ proc[c].pc = "load" /\ proc[c].call = 2 /\ proc[c].rq = "miss"
    /\ Len(calls) = 2
    /\ calls[1].done /\ calls[1].key = keyToString(proc[c].key)
    /\ loads[proc[c].key] = 2

\* C20: no step of a Get, Set or Delete (nor of a goroutine they spawn)
\* changes the remote-health flag.
C20_FlagOnlyByProbe ==
  [][(proc' # proc \/ nops' # nops \/ jobs' # jobs) => redisEnabled' = redisEnabled]_vars

\* C20 witness: a Get's remote query has failed with a transport error, the
\* store is still unreachable, and the flag is unchanged (true).
C20_Witness ==
  /\ redisEnabled /\ ~remoteUp
  /\ \E c \in Procs : proc[c].op = "get" /\ proc[c].rq = "transport" /\ proc[c].pc = "do"

\* a caller of Get that is on the loader path or has returned from it
OnLoaderPath(c) ==
  /\ proc[c].op = "get"
  /\ proc[c].pc \in LoaderStages \/ (proc[c].pc = "done" /\ proc[c].call # 0)

\* a step in which caller c starts a Get that LocalCache serves: it returns
\* the stored value, having queried no tier and invoked no loader
LocalHitReturns(c) ==
  (/\ proc[c].pc \in {"idle", "done"} /\ nops' = nops + 1
   /\ proc'[c] # proc[c] /\ proc'[c].op = "get" /\ proc'[c].key \in Resident)
    => /\ proc'[c].pc = "done"
       /\ proc'[c].ret = [value |-> local.store[proc'[c].key], err |-> ErrNil]
       /\ proc'[c].rq = "none" /\ proc'[c].call = 0
       /\ UNCHANGED <<remote, jobs, loads, calls, sfm>>

\* a step in which caller c, having obtained the remote value, backfills
\* LocalCache with it and returns it, with no loader call
RemoteHitReturns(c) ==
  (proc[c].pc = "backfill" /\ proc'[c].pc # "backfill")
    => /\ proc'[c].pc = "done"
       /\ proc'[c].ret = [value |-> proc[c].val, err |-> ErrNil]
       /\ proc[c].key \in DOMAIN local'.store
       /\ local'.store[proc[c].key] = proc[c].val
       /\ proc'[c].call = 0
       /\ UNCHANGED <<loads, calls, sfm>>

\* C21 as stated: Get consults local, remote, loader in that order; a local
\* hit returns without remote query or loader call; a remote hit (the store
\* holds an entry for the key) returns the remote value, backfilled, without
\* loader call; the loader path is entered only after a local miss combined
\* with a remote miss or an unhealthy remote (tier disabled or unreachable).
C21_TierOrder ==
  /\ [][\A c \in Procs : LocalHitReturns(c) /\ RemoteHitReturns(c)]_vars
  /\ [][\A c \in Procs :
          (/\ proc[c].pc = "redis" /\ proc'[c].pc # "redis" /\ remoteUp
           /\ keyToString(proc[c].key) \in DOMAIN remote)
            => proc'[c].pc = "backfill"]_vars
  /\ [](\A c \in Procs :
          OnLoaderPath(c) => \/ proc[c].rq \in {"miss", "transport"}
                             \/ (proc[c].rq = "none" /\ ~proc[c].en))

\* C21 amended: as stated, except that a remote hit returns the remote
\* value only when the stored bytes decode to a value; the loader path is
\* also entered after a local miss combined with a remote entry that does
\* not decode.
C21_TierOrderDecodable ==
  /\ [][\A c \in Procs : LocalHitReturns(c) /\ RemoteHitReturns(c)]_vars
  /\ [][\A c \in Procs :
          (/\ proc[c].pc = "redis" /\ proc'[c].pc # "redis" /\ remoteUp
           /\ keyToString(proc[c].key) \in DOMAIN remote)
            => IF remote[keyToString(proc[c].key)].kind = "json"
                 THEN /\ proc'[c].pc = "backfill"
                      /\ proc'[c].val = remote[keyToString(proc[c].key)].val
                 ELSE proc'[c].pc = "do" /\ proc'[c].rq = "undecodable"]_vars
  /\ [](\A c \in Procs :
          OnLoaderPath(c) => \/ proc[c].rq \in {"miss", "transport", "undecodable"}
                             \/ (proc[c].rq = "none" /\ ~proc[c].en))
  /\ [][\A key \in CKeys : loads'[key] # loads[key] =>
          \E c \in Procs : /\ proc[c].pc = "do" /\ proc[c].key = key
                           /\ proc[c].rq # "none" /\ proc[c].rq # "hit"]_vars

\* C21 witness: one Get was served by the remote store (backfilled, no
\* loader call) and a Get of another key missed both tiers and returned the
\* loaded value.
C21_Witness ==
  \E c, d \in Procs :
    /\ proc[c].pc = "done" /\ proc[c].op = "get" /\ proc[c].rq = "hit"
    /\ proc[c].call = 0 /\ proc[c].key \in Resident
    /\ proc[d].pc = "done" /\ proc[d].op = "get" /\ proc[d].rq = "miss"
    /\ proc[d].call # 0 /\ proc[d].ret.err = ErrNil
    /\ loads[proc[c].key] = 0 /\ loads[proc[d].key] = 1

TwoSetsPropagated(key) ==
  /\ nops = 2 /\ writes[key] = 2
  /\ \A c \in Procs : proc[c].op = "set" /\ proc[c].key = key /\ proc[c].pc = "done"
  /\ jobs = EmptyBag
  /\ okRuns[key] = 2

\* C31: when Set(K, V1) and, after it returned, Set(K, V2) were the only
\* writes to K, the remote store was reachable and all propagation has
\* completed, the remote store holds V2 for K, the value LocalCache holds.
C31_LastWriteWins ==
  \A key \in CKeys :
    TwoSetsPropagated(key) =>
      /\ key \in Resident /\ local.store[key] = lastSet[key]
      /\ keyFunc(key) \in DOMAIN remote
      /\ remote[keyFunc(key)] = jsonMarshal(lastSet[key])

\* the only write to key was a Delete, it has returned, its goroutine has
\* run with success, and no call is in progress
DeleteSettled(key) ==
  /\ writes[key] = 1 /\ lastSet[key] = NoVal
  /\ \E d \in Procs : proc[d].op = "del" /\ proc[d].key = key /\ proc[d].pc = "done"
  /\ \A c \in Procs : proc[c].pc \in {"idle", "done"}
  /\ jobs = EmptyBag
  /\ okRuns[key] = 1

\* C32: after Delete(K) has returned and all asynchronous work and every
\* concurrent Get have completed, with no Set(K) issued, K is absent from
\* both tiers and a Get(K) would return not-found.
C32_DeleteStaysDeleted ==
  \A key \in CKeys :
    DeleteSettled(key) =>
      /\ key \notin Resident
      /\ keyFunc(key) \notin DOMAIN remote
      /\ LocalCacheGet(local, key).err = ErrKeyNotExist
      /\ remoteUp => RedisCacheGet(remote, remoteUp, key).err = ErrKeyNotExist

\* C17: every mutation of LocalCache's mapping or policy happens under one
\* mutual-exclusion domain: no two callers are inside a mutation at the same
\* time, and no caller reads the mapping or the policy while another is
\* inside a mutation of it.
C17_MutualExclusion ==
  \A c, d \in Procs : c # d => Writes(c) \cap (Writes(d) \cup Reads(d)) = {}

====
